---- MODULE Spec2Model ----
(***************************************************************************)
(* The pair iterators of the FSM graph (src/src/fsmgraph.h):               *)
(* RangePairIter walks two sorted lists of disjoint key ranges and         *)
(* ValPairIter walks two sorted lists of single keys. Both are resumable   *)
(* routines: findNext() jumps to the label stored in itState, runs to the  *)
(* next CO_RETURN and stores the label to resume from.                     *)
(***************************************************************************)
EXTENDS Integers, Sequences, FiniteSets, TLC

VARIABLES
    isSigned,   \* ctx->keyOps signedness of the key type
    list1,      \* the transition list walked as list 1 (sequence of ranges)
    list2,      \* the transition list walked as list 2
    rit,        \* the RangePairIter object
    returns,    \* history: the RangePairIter as each findNext call left it
    endCalls,   \* history: findNext calls made on a RangePairIter at End
    vlist1,     \* the key list walked as list 1 by the ValPairIter
    vlist2,     \* the key list walked as list 2 by the ValPairIter
    vit,        \* the ValPairIter object
    vreturns,   \* history: the ValPairIter as each findNext call left it
    vEndCalls,  \* history: findNext calls made on a ValPairIter at End
    action,     \* an Action: its six reference counters
    numRefsOut, \* history: what the numRefs() calls on action returned
    priorTable, \* a PriorTable
    priorHit,   \* history: what the latest setPrior found in its table
    trans,      \* two transitions: their action, priority and LM action tables
    addedIn,    \* history: the addInTrans call made, and trans before it
    condSpace,  \* a CondSpace: its condSet
    fullSizeOut, \* history: what the fullSize() calls on condSpace returned
    transAp,    \* a TransAp: its address, key range and condSpace pointer
    viewsOut,   \* history: what plain(), tcap() and tdap() returned on transAp
    fsm,        \* an FsmAp: its states, transitions, in-lists and finStateSet
    fsmOps,     \* history: the graph calls made, and whether in key order
    ctx,        \* an FsmCtx: its stateLimit
    fillIn,     \* a fillInStates run: its states, worklist and outcome
    priorCmp,   \* a comparePrior call: its two tables and its outcome
    condData,   \* the CondData of a context: its condSpaceMap, and history
    input,      \* an input_impl_seq: its queue and stash of seq_bufs
    inputHist   \* history: the latest call on input, and input before it

\* the variables of the two iterators
iterVars == <<isSigned, list1, list2, rit, returns, endCalls,
              vlist1, vlist2, vit, vreturns, vEndCalls>>

actionVars == <<action, numRefsOut>>

priorVars == <<priorTable, priorHit>>

transVars == <<trans, addedIn>>

\* the variables of the objects that the iterators do not touch
condVars == <<condSpace, fullSizeOut>>

transApVars == <<transAp, viewsOut>>

graphVars == <<fsm, fsmOps>>

fillVars == <<ctx, fillIn>>

mergeVars == <<priorCmp, condData>>

inputVars == <<input, inputHist>>

others == <<actionVars, priorVars, transVars, condVars, transApVars,
            graphVars, fillVars, mergeVars, inputVars>>

\* every variable but those of the merge data, and but those of the input
exceptMerge == <<iterVars, actionVars, priorVars, transVars, condVars,
                 transApVars, graphVars, fillVars, inputVars>>

exceptInput == <<iterVars, actionVars, priorVars, transVars, condVars,
                 transApVars, graphVars, fillVars, mergeVars>>

\* the variables that a step on one kind of object leaves alone
exceptAction == <<iterVars, priorVars, transVars, condVars, transApVars,
                graphVars, fillVars, mergeVars, inputVars>>

exceptPrior == <<iterVars, actionVars, transVars, condVars, transApVars,
                graphVars, fillVars, mergeVars, inputVars>>

exceptTrans == <<iterVars, actionVars, priorVars, condVars, transApVars,
                graphVars, fillVars, mergeVars, inputVars>>

exceptCond == <<iterVars, actionVars, priorVars, transVars, transApVars,
                graphVars, fillVars, mergeVars, inputVars>>

exceptTransAp == <<iterVars, actionVars, priorVars, transVars, condVars,
                graphVars, fillVars, mergeVars, inputVars>>

exceptGraph == <<iterVars, actionVars, priorVars, transVars, condVars,
                 transApVars, fillVars, mergeVars, inputVars>>

exceptFill == <<iterVars, actionVars, priorVars, transVars, condVars,
                transApVars, graphVars, mergeVars, inputVars>>

vars == <<iterVars, others>>

(***************************************************************************)
(* Bounds.                                                                 *)
(***************************************************************************)
\* number of values of the key type (a scaled-down machine integer)
KeyCard == 4
\* longest transition list
MaxLen == 2
\* largest key of a ValPairIter list
MaxCondKey == 3
\* findNext calls followed on an iterator that is at End
MaxEndCalls == 1

\* largest value of a reference counter of an Action
MaxRefs == 2
\* largest PriorDesc key
MaxPriorKey == 1
\* largest PriorDesc priority
MaxPriority == 1
\* largest ordering of a table element
MaxOrdering == 2
\* number of Action objects, and of LongestMatchPart objects
MaxActions == 2
\* set calls that build the two transitions of a run
MaxSetCalls == 2
\* largest number of conditions in a condSet
MaxConds == 63
\* number of CondSpace objects
MaxCondSpaces == 2
\* graph operations of a run, which allocate an object each at most
MaxGraphOps == 5
\* largest key of a transition of a graph
MaxGraphKey == 1
\* largest stateLimit that a context is given
MaxStateLimit == 3
\* largest total number of states of a graph that fillInStates works on
MaxFillStates == 6
\* largest number of states that filling in one combined state allocates
MaxNewStates == 2
\* number of Action objects that are conditions
MaxCondActions == 3
\* addCondSpace calls of a run
MaxAddCalls == 3
\* bits of an int and of a long (LP64)
IntBits == 32
LongBits == 64

(***************************************************************************)
(* A run is about one kind of object; the objects of the other kinds are   *)
(* not constructed in it.                                                  *)
(***************************************************************************)
NoAction ==
    [numTransRefs |-> 0, numToStateRefs |-> 0, numFromStateRefs |-> 0,
     numEofRefs |-> 0, numCondRefs |-> 0, numNfaRefs |-> 0]

ActionIdle ==
    /\ action = NoAction
    /\ numRefsOut = <<>>

PriorsIdle ==
    /\ priorTable = <<>>
    /\ priorHit = "none"

TransIdle ==
    /\ trans = <<>>
    /\ addedIn = <<>>

CondIdle ==
    /\ condSpace = [condSet |-> {}]
    /\ fullSizeOut = <<>>

TransApIdle ==
    /\ transAp = [this |-> 0, lowKey |-> 0, highKey |-> 0, condSpace |-> 0]
    /\ viewsOut = <<>>

GraphIdle ==
    /\ fsm = [stateList |-> <<>>]
    /\ fsmOps = [inOrder |-> TRUE, calls |-> 0]

FillIdle ==
    /\ ctx = [stateLimit |-> 0]
    /\ fillIn = [pc |-> "none"]

MergeIdle ==
    /\ priorCmp = [outcome |-> "none"]
    /\ condData = [condSpaceMap |-> <<>>]

InputIdle ==
    /\ input = [queue |-> <<>>]
    /\ inputHist = [call |-> "none"]

\* no object of the kinds that were added to the model later
LaterIdle == MergeIdle /\ InputIdle

\* no object of the kinds that the model began with
EarlierIdle ==
    /\ ActionIdle /\ PriorsIdle /\ TransIdle /\ CondIdle /\ TransApIdle
    /\ GraphIdle /\ FillIdle

OthersIdle ==
    /\ ActionIdle /\ PriorsIdle /\ TransIdle /\ CondIdle /\ TransApIdle
    /\ GraphIdle /\ FillIdle /\ LaterIdle

(***************************************************************************)
(* Key algebra. A key is stored as a bit pattern 0..KeyCard-1; a signed    *)
(* key type reads the upper patterns as negative values.                   *)
(***************************************************************************)
Keys == 0 .. (KeyCard - 1)

\* the value of a key of a signed or unsigned key type
ValueOf(signed, key) ==
    IF signed /\ key >= KeyCard - (KeyCard \div 2) THEN key - KeyCard ELSE key

KeyVal(key) == ValueOf(isSigned, key)

lt(key1, key2) == KeyVal(key1) < KeyVal(key2)

increment(key) == (key + 1) % KeyCard

decrement(key) == (key + KeyCard - 1) % KeyCard

(***************************************************************************)
(* Lists. An element is addressed by its index; 0 is the null pointer.     *)
(***************************************************************************)
PiList(list) == IF Len(list) = 0 THEN 0 ELSE 1

PiList_next(list, ptr) == IF ptr < Len(list) THEN ptr + 1 ELSE 0

(***************************************************************************)
(* RangePairIter::NextTrans                                                *)
(***************************************************************************)
NextTrans == [lowKey |-> 0, highKey |-> 0, trans |-> 0, next |-> 0]

NextTrans_load(list, t) ==
    IF t.trans = 0
    THEN [t EXCEPT !.next = 0]
    ELSE [t EXCEPT !.next = PiList_next(list, t.trans),
                   !.lowKey = list[t.trans].lowKey,
                   !.highKey = list[t.trans].highKey]

NextTrans_set(list, t, ptr) == NextTrans_load(list, [t EXCEPT !.trans = ptr])

NextTrans_increment(list, t) == NextTrans_load(list, [t EXCEPT !.trans = t.next])

UserState == {"RangeInS1", "RangeInS2", "RangeOverlap", "BreakS1", "BreakS2"}

IterState == {"Begin", "ConsumeS1Range", "ConsumeS2Range", "OnlyInS1Range",
              "OnlyInS2Range", "S1SticksOut", "S1SticksOutBreak", "S2SticksOut",
              "S2SticksOutBreak", "S1DragsBehind", "S1DragsBehindBreak",
              "S2DragsBehind", "S2DragsBehindBreak", "ExactOverlap", "End"}

CO_RETURN(it, label) == [it EXCEPT !.itState = label]

CO_RETURN2(it, label, uState) == [it EXCEPT !.itState = label, !.userState = uState]

(***************************************************************************)
(* The four ways findNext breaks a range. Each saves the bottom half in    *)
(* bottomLow, bottomHigh and bottomTrans1/2 and leaves the top half in the *)
(* broken list's NextTrans.                                                *)
(***************************************************************************)
\* mutant: the key that is decremented is the lowKey of the range itself
breakS1SticksOut_ownLow(it) ==
    [it EXCEPT !.bottomLow = it.s2Tel.lowKey,
               !.bottomHigh = it.s1Tel.highKey,
               !.s1Tel.highKey = decrement(it.s1Tel.lowKey),
               !.bottomTrans1 = it.s1Tel.trans]

breakS1SticksOut(it) ==
    [it EXCEPT !.bottomLow = it.s2Tel.lowKey,
               !.bottomHigh = it.s1Tel.highKey,
               !.s1Tel.highKey = decrement(it.s2Tel.lowKey),
               !.bottomTrans1 = it.s1Tel.trans]

breakS2SticksOut(it) ==
    [it EXCEPT !.bottomLow = it.s1Tel.lowKey,
               !.bottomHigh = it.s2Tel.highKey,
               !.s2Tel.highKey = decrement(it.s1Tel.lowKey),
               !.bottomTrans2 = it.s2Tel.trans]

\* mutant: the top half of the broken range keeps the whole range's highKey
breakS2DragsBehind_noTrim(it) ==
    [it EXCEPT !.bottomLow = increment(it.s1Tel.highKey),
               !.bottomHigh = it.s2Tel.highKey,
               !.bottomTrans2 = it.s2Tel.trans]

breakS2DragsBehind(it) ==
    [it EXCEPT !.bottomLow = increment(it.s1Tel.highKey),
               !.bottomHigh = it.s2Tel.highKey,
               !.s2Tel.highKey = it.s1Tel.highKey,
               !.bottomTrans2 = it.s2Tel.trans]

\* mutant: the bottom half starts at the last key of the top half
breakS1DragsBehind_noInc(it) ==
    [it EXCEPT !.bottomLow = it.s2Tel.highKey,
               !.bottomHigh = it.s1Tel.highKey,
               !.s1Tel.highKey = it.s2Tel.highKey,
               !.bottomTrans1 = it.s1Tel.trans]

breakS1DragsBehind(it) ==
    [it EXCEPT !.bottomLow = increment(it.s2Tel.highKey),
               !.bottomHigh = it.s1Tel.highKey,
               !.s1Tel.highKey = it.s2Tel.highKey,
               !.bottomTrans1 = it.s1Tel.trans]

(***************************************************************************)
(* RangePairIter::findNext, from the head of the while (true) loop to the  *)
(* next CO_RETURN.                                                         *)
(***************************************************************************)
ScanRanges(it) ==
    LET s1 == it.s1Tel
        s2 == it.s2Tel
    IN  IF s1.trans = 0 THEN
            IF s2.trans # 0
            THEN CO_RETURN2(it, "ConsumeS2Range", "RangeInS2")
            ELSE CO_RETURN(it, "End")
        ELSE IF s2.trans = 0 THEN
            IF s1.trans # 0
            THEN CO_RETURN2(it, "ConsumeS1Range", "RangeInS1")
            ELSE CO_RETURN(it, "End")
        ELSE IF lt(s1.highKey, s2.lowKey) THEN
            CO_RETURN2(it, "OnlyInS1Range", "RangeInS1")
        ELSE IF lt(s2.highKey, s1.lowKey) THEN
            CO_RETURN2(it, "OnlyInS2Range", "RangeInS2")
        ELSE IF lt(s1.lowKey, s2.lowKey) THEN
            CO_RETURN2(breakS1SticksOut(it), "S1SticksOutBreak", "BreakS1")
        ELSE IF lt(s2.lowKey, s1.lowKey) THEN
            CO_RETURN2(breakS2SticksOut(it), "S2SticksOutBreak", "BreakS2")
        ELSE IF lt(s1.highKey, s2.highKey) THEN
            CO_RETURN2(breakS2DragsBehind(it), "S2DragsBehindBreak", "BreakS2")
        ELSE IF lt(s2.highKey, s1.highKey) THEN
            CO_RETURN2(breakS1DragsBehind(it), "S1DragsBehindBreak", "BreakS1")
        ELSE
            CO_RETURN2(it, "ExactOverlap", "RangeOverlap")

(***************************************************************************)
(* The code that follows each re-entry label up to the end of its loop     *)
(* body: what the iterator looks like when control is back at the head of  *)
(* the while (true) loop.                                                  *)
(***************************************************************************)
afterBegin(it) ==
    [it EXCEPT !.s1Tel = NextTrans_set(list1, @, PiList(list1)),
               !.s2Tel = NextTrans_set(list2, @, PiList(list2))]

afterOnlyInS1Range(it) == [it EXCEPT !.s1Tel = NextTrans_increment(list1, @)]

\* mutant: list 1 advances over a range that is only in list 2
afterOnlyInS2Range_s1(it) == [it EXCEPT !.s1Tel = NextTrans_increment(list1, @)]

afterOnlyInS2Range(it) == [it EXCEPT !.s2Tel = NextTrans_increment(list2, @)]

\* mutant: the bottom half's lowKey is not installed
afterS1SticksOut_keepLow(it) ==
    [it EXCEPT !.s1Tel.highKey = it.bottomHigh,
               !.s1Tel.trans = it.bottomTrans1]

afterS1SticksOut(it) ==
    [it EXCEPT !.s1Tel.lowKey = it.bottomLow,
               !.s1Tel.highKey = it.bottomHigh,
               !.s1Tel.trans = it.bottomTrans1]

\* mutant: the bottom half of list 2 is installed in s1Tel
afterS2SticksOut_intoS1(it) ==
    [it EXCEPT !.s1Tel.lowKey = it.bottomLow,
               !.s1Tel.highKey = it.bottomHigh,
               !.s1Tel.trans = it.bottomTrans2]

afterS2SticksOut(it) ==
    [it EXCEPT !.s2Tel.lowKey = it.bottomLow,
               !.s2Tel.highKey = it.bottomHigh,
               !.s2Tel.trans = it.bottomTrans2]

afterS2DragsBehind(it) ==
    [it EXCEPT !.s2Tel.lowKey = it.bottomLow,
               !.s2Tel.highKey = it.bottomHigh,
               !.s2Tel.trans = it.bottomTrans2,
               !.s1Tel = NextTrans_increment(list1, @)]

\* mutant: the remainder of list 1 takes the transition saved for list 2
afterS1DragsBehind_trans2(it) ==
    [it EXCEPT !.s1Tel.lowKey = it.bottomLow,
               !.s1Tel.highKey = it.bottomHigh,
               !.s1Tel.trans = it.bottomTrans2,
               !.s2Tel = NextTrans_increment(list2, @)]

afterS1DragsBehind(it) ==
    [it EXCEPT !.s1Tel.lowKey = it.bottomLow,
               !.s1Tel.highKey = it.bottomHigh,
               !.s1Tel.trans = it.bottomTrans1,
               !.s2Tel = NextTrans_increment(list2, @)]

\* mutant: only list 1 advances over an exact overlap
afterExactOverlap_s1Only(it) == [it EXCEPT !.s1Tel = NextTrans_increment(list1, @)]

afterExactOverlap(it) ==
    [it EXCEPT !.s1Tel = NextTrans_increment(list1, @),
               !.s2Tel = NextTrans_increment(list2, @)]

(***************************************************************************)
(* The inner draining loops: re-entry increments the drained list and      *)
(* tests the inner while condition; leaving it breaks out to End.          *)
(***************************************************************************)
\* mutant: the draining loop is left after one element
afterConsumeS2Range_once(it) ==
    CO_RETURN([it EXCEPT !.s2Tel = NextTrans_increment(list2, @)], "End")

afterConsumeS2Range(it) ==
    LET it2 == [it EXCEPT !.s2Tel = NextTrans_increment(list2, @)]
    IN  IF it2.s2Tel.trans # 0
        THEN CO_RETURN2(it2, "ConsumeS2Range", "RangeInS2")
        ELSE CO_RETURN(it2, "End")

\* mutant: the drained list is not advanced
afterConsumeS1Range_stuck(it) ==
    IF it.s1Tel.trans # 0
    THEN CO_RETURN2(it, "ConsumeS1Range", "RangeInS1")
    ELSE CO_RETURN(it, "End")

afterConsumeS1Range(it) ==
    LET it2 == [it EXCEPT !.s1Tel = NextTrans_increment(list1, @)]
    IN  IF it2.s1Tel.trans # 0
        THEN CO_RETURN2(it2, "ConsumeS1Range", "RangeInS1")
        ELSE CO_RETURN(it2, "End")

(***************************************************************************)
(* History records. heads holds the s1Tel and s2Tel the loop head saw on   *)
(* the pass that led to the return, or is empty when the return was not    *)
(* reached through the loop head.                                          *)
(***************************************************************************)
Returned(it, heads) == [it |-> it, heads |-> heads]

ViaLoopHead(it) == Returned(ScanRanges(it), <<it.s1Tel, it.s2Tel>>)

(***************************************************************************)
(* The constructor: member initialisers, bottomLow = bottomHigh = 0, and   *)
(* the first findNext() call, which enters at Begin. userState has no      *)
(* initialiser and is indeterminate until a CO_RETURN2 assigns it.         *)
(***************************************************************************)
RangePairIter ==
    ViaLoopHead(afterBegin([itState |-> "Begin", userState |-> "indeterminate",
                s1Tel |-> NextTrans, s2Tel |-> NextTrans,
                bottomLow |-> 0, bottomHigh |-> 0,
                bottomTrans1 |-> 0, bottomTrans2 |-> 0]))

(***************************************************************************)
(* Input lists: sorted by lowKey, pairwise disjoint, lowKey <= highKey.    *)
(***************************************************************************)
RangesOf(signed) ==
    {r \in [lowKey : Keys, highKey : Keys] :
        ValueOf(signed, r.lowKey) <= ValueOf(signed, r.highKey)}

SortedDisjoint(signed, list) ==
    \A i \in 1 .. (Len(list) - 1) :
        ValueOf(signed, list[i].highKey) < ValueOf(signed, list[i + 1].lowKey)

RangeListsOf(signed) ==
    {l \in UNION {[1 .. n -> RangesOf(signed)] : n \in 0 .. MaxLen} :
        SortedDisjoint(signed, l)}

SignedLists == RangeListsOf(TRUE)

UnsignedLists == RangeListsOf(FALSE)

RangeLists == IF isSigned THEN SignedLists ELSE UnsignedLists

\* the iterator of a run that constructs no iterator of that kind
NotConstructed == [itState |-> "None"]

(***************************************************************************)
(* findNext(): one disjunct per case of the resume switch.                 *)
(***************************************************************************)
\* mutant: the highKey that was trimmed is written to the element of list 1
Return_writeBack(r) ==
    /\ rit' = r.it
    /\ returns' = Append(returns, r)
    /\ list1' = IF r.it.s1Tel.trans = 0
                THEN list1
                ELSE [list1 EXCEPT ![r.it.s1Tel.trans].highKey =
                                       r.it.s1Tel.highKey]
    /\ UNCHANGED <<isSigned, list2, endCalls>>
    /\ UNCHANGED <<vlist1, vlist2, vit, vreturns, vEndCalls>>
    /\ UNCHANGED others

Return(r) ==
    /\ rit' = r.it
    /\ returns' = Append(returns, r)
    /\ UNCHANGED <<isSigned, list1, list2, endCalls>>
    /\ UNCHANGED <<vlist1, vlist2, vit, vreturns, vEndCalls>>
    /\ UNCHANGED others

entryConsumeS1Range ==
    /\ rit.itState = "ConsumeS1Range"
    /\ Return(Returned(afterConsumeS1Range(rit), <<>>))

entryConsumeS2Range ==
    /\ rit.itState = "ConsumeS2Range"
    /\ Return(Returned(afterConsumeS2Range(rit), <<>>))

entryOnlyInS1Range ==
    /\ rit.itState = "OnlyInS1Range"
    /\ Return(ViaLoopHead(afterOnlyInS1Range(rit)))

entryOnlyInS2Range ==
    /\ rit.itState = "OnlyInS2Range"
    /\ Return(ViaLoopHead(afterOnlyInS2Range(rit)))

\* mutant: the bottom half is installed before the broken-off range is reported
entryS1SticksOutBreak_early ==
    /\ rit.itState = "S1SticksOutBreak"
    /\ Return(Returned(CO_RETURN2(afterS1SticksOut(rit), "S1SticksOut", "RangeInS1"), <<>>))

entryS1SticksOutBreak ==
    /\ rit.itState = "S1SticksOutBreak"
    /\ Return(Returned(CO_RETURN2(rit, "S1SticksOut", "RangeInS1"), <<>>))

entryS1SticksOut ==
    /\ rit.itState = "S1SticksOut"
    /\ Return(ViaLoopHead(afterS1SticksOut(rit)))

entryS2SticksOutBreak ==
    /\ rit.itState = "S2SticksOutBreak"
    /\ Return(Returned(CO_RETURN2(rit, "S2SticksOut", "RangeInS2"), <<>>))

entryS2SticksOut ==
    /\ rit.itState = "S2SticksOut"
    /\ Return(ViaLoopHead(afterS2SticksOut(rit)))

entryS2DragsBehindBreak ==
    /\ rit.itState = "S2DragsBehindBreak"
    /\ Return(Returned(CO_RETURN2(rit, "S2DragsBehind", "RangeOverlap"), <<>>))

entryS2DragsBehind ==
    /\ rit.itState = "S2DragsBehind"
    /\ Return(ViaLoopHead(afterS2DragsBehind(rit)))

entryS1DragsBehindBreak ==
    /\ rit.itState = "S1DragsBehindBreak"
    /\ Return(Returned(CO_RETURN2(rit, "S1DragsBehind", "RangeOverlap"), <<>>))

entryS1DragsBehind ==
    /\ rit.itState = "S1DragsBehind"
    /\ Return(ViaLoopHead(afterS1DragsBehind(rit)))

entryExactOverlap ==
    /\ rit.itState = "ExactOverlap"
    /\ Return(ViaLoopHead(afterExactOverlap(rit)))

\* mutant: a call at End starts the walk again
entryEnd_restart ==
    /\ rit.itState = "End"
    /\ endCalls < MaxEndCalls
    /\ endCalls' = endCalls + 1
    /\ rit' = ViaLoopHead(afterBegin(rit)).it
    /\ UNCHANGED <<isSigned, list1, list2, returns>>
    /\ UNCHANGED <<vlist1, vlist2, vit, vreturns, vEndCalls>>
    /\ UNCHANGED others

\* entryEnd is the last statement of the routine: the call returns at once.
entryEnd ==
    /\ rit.itState = "End"
    /\ endCalls < MaxEndCalls
    /\ endCalls' = endCalls + 1
    /\ UNCHANGED <<isSigned, list1, list2, rit, returns>>
    /\ UNCHANGED <<vlist1, vlist2, vit, vreturns, vEndCalls>>
    /\ UNCHANGED others

RangePairIter_findNext ==
    \/ entryConsumeS1Range
    \/ entryConsumeS2Range
    \/ entryOnlyInS1Range
    \/ entryOnlyInS2Range
    \/ entryS1SticksOutBreak
    \/ entryS1SticksOut
    \/ entryS2SticksOutBreak
    \/ entryS2SticksOut
    \/ entryS2DragsBehindBreak
    \/ entryS2DragsBehind
    \/ entryS1DragsBehindBreak
    \/ entryS1DragsBehind
    \/ entryExactOverlap
    \/ entryEnd

(***************************************************************************)
(* ValPairIter::NextTrans                                                  *)
(***************************************************************************)
V_NextTrans == [key |-> 0, trans |-> 0, next |-> 0]

V_NextTrans_load(list, t) ==
    IF t.trans = 0
    THEN [t EXCEPT !.next = 0]
    ELSE [t EXCEPT !.next = PiList_next(list, t.trans),
                   !.key = list[t.trans].key]

V_NextTrans_set(list, t, ptr) == V_NextTrans_load(list, [t EXCEPT !.trans = ptr])

V_NextTrans_increment(list, t) == V_NextTrans_load(list, [t EXCEPT !.trans = t.next])

V_UserState == {"RangeInS1", "RangeInS2", "RangeOverlap"}

(***************************************************************************)
(* ValPairIter::findNext, from the head of the while (true) loop to the    *)
(* next CO_RETURN. Keys of this iterator are compared as plain integers.   *)
(***************************************************************************)
ScanVals(it) ==
    LET s1 == it.s1Tel
        s2 == it.s2Tel
    IN  IF s1.trans = 0 THEN
            IF s2.trans # 0
            THEN CO_RETURN2(it, "ConsumeS2Range", "RangeInS2")
            ELSE CO_RETURN(it, "End")
        ELSE IF s2.trans = 0 THEN
            IF s1.trans # 0
            THEN CO_RETURN2(it, "ConsumeS1Range", "RangeInS1")
            ELSE CO_RETURN(it, "End")
        ELSE IF s1.key < s2.key THEN
            CO_RETURN2(it, "OnlyInS1Range", "RangeInS1")
        ELSE IF s2.key < s1.key THEN
            CO_RETURN2(it, "OnlyInS2Range", "RangeInS2")
        ELSE
            CO_RETURN2(it, "ExactOverlap", "RangeOverlap")

V_afterBegin(it) ==
    [it EXCEPT !.s1Tel = V_NextTrans_set(vlist1, @, PiList(vlist1)),
               !.s2Tel = V_NextTrans_set(vlist2, @, PiList(vlist2))]

V_afterOnlyInS1Range(it) == [it EXCEPT !.s1Tel = V_NextTrans_increment(vlist1, @)]

V_afterOnlyInS2Range(it) == [it EXCEPT !.s2Tel = V_NextTrans_increment(vlist2, @)]

V_afterExactOverlap_s1Only(it) == [it EXCEPT !.s1Tel = V_NextTrans_increment(vlist1, @)]

V_afterExactOverlap(it) ==
    [it EXCEPT !.s1Tel = V_NextTrans_increment(vlist1, @),
               !.s2Tel = V_NextTrans_increment(vlist2, @)]

V_afterConsumeS2Range(it) ==
    LET it2 == [it EXCEPT !.s2Tel = V_NextTrans_increment(vlist2, @)]
    IN  IF it2.s2Tel.trans # 0
        THEN CO_RETURN2(it2, "ConsumeS2Range", "RangeInS2")
        ELSE CO_RETURN(it2, "End")

V_afterConsumeS1Range(it) ==
    LET it2 == [it EXCEPT !.s1Tel = V_NextTrans_increment(vlist1, @)]
    IN  IF it2.s1Tel.trans # 0
        THEN CO_RETURN2(it2, "ConsumeS1Range", "RangeInS1")
        ELSE CO_RETURN(it2, "End")

V_ViaLoopHead(it) == Returned(ScanVals(it), <<it.s1Tel, it.s2Tel>>)

(***************************************************************************)
(* The constructor: itState(Begin), then the first findNext() call. The    *)
(* bottom* members are never read or written by this iterator and are left *)
(* out; userState has no initialiser and is indeterminate until a          *)
(* CO_RETURN2 assigns it.                                                  *)
(***************************************************************************)
ValPairIter ==
    V_ViaLoopHead(V_afterBegin([itState |-> "Begin", userState |-> "indeterminate",
                                s1Tel |-> V_NextTrans, s2Tel |-> V_NextTrans]))

CondKeys == 0 .. MaxCondKey

V_Sorted(list) == \A i \in 1 .. (Len(list) - 1) : list[i].key < list[i + 1].key

KeyLists ==
    {l \in UNION {[1 .. n -> [key : CondKeys]] : n \in 0 .. MaxLen} : V_Sorted(l)}

V_Return(r) ==
    /\ vit' = r.it
    /\ vreturns' = Append(vreturns, r)
    /\ UNCHANGED <<vlist1, vlist2, vEndCalls>>
    /\ UNCHANGED <<isSigned, list1, list2, rit, returns, endCalls>>
    /\ UNCHANGED others

V_entryConsumeS1Range ==
    /\ vit.itState = "ConsumeS1Range"
    /\ V_Return(Returned(V_afterConsumeS1Range(vit), <<>>))

V_entryConsumeS2Range ==
    /\ vit.itState = "ConsumeS2Range"
    /\ V_Return(Returned(V_afterConsumeS2Range(vit), <<>>))

V_entryOnlyInS1Range ==
    /\ vit.itState = "OnlyInS1Range"
    /\ V_Return(V_ViaLoopHead(V_afterOnlyInS1Range(vit)))

V_entryOnlyInS2Range ==
    /\ vit.itState = "OnlyInS2Range"
    /\ V_Return(V_ViaLoopHead(V_afterOnlyInS2Range(vit)))

V_entryExactOverlap ==
    /\ vit.itState = "ExactOverlap"
    /\ V_Return(V_ViaLoopHead(V_afterExactOverlap(vit)))

V_entryEnd ==
    /\ vit.itState = "End"
    /\ vEndCalls < MaxEndCalls
    /\ vEndCalls' = vEndCalls + 1
    /\ UNCHANGED <<vlist1, vlist2, vit, vreturns>>
    /\ UNCHANGED <<isSigned, list1, list2, rit, returns, endCalls>>
    /\ UNCHANGED others

ValPairIter_findNext ==
    \/ V_entryConsumeS1Range
    \/ V_entryConsumeS2Range
    \/ V_entryOnlyInS1Range
    \/ V_entryOnlyInS2Range
    \/ V_entryExactOverlap
    \/ V_entryEnd

(***************************************************************************)
(* The program constructs a RangePairIter over two transition lists and a  *)
(* ValPairIter over two key lists, and steps each with findNext().         *)
(***************************************************************************)
SingleKeys(list) == \A i \in 1 .. Len(list) : list[i].lowKey = list[i].highKey

KeysOf(list) == [i \in 1 .. Len(list) |-> [key |-> KeyVal(list[i].lowKey)]]

\* the values a member can hold after construction: the one assigned, or any
\* value of its type when it is still indeterminate
Holds(value, type) == IF value = "indeterminate" THEN type ELSE {value}

\* a RangePairIter is constructed over any two transition lists
InitRange ==
    /\ list1 \in RangeLists
    /\ list2 \in RangeLists
    /\ \E uState \in Holds(RangePairIter.it.userState, UserState) :
          LET r == [RangePairIter EXCEPT !.it.userState = uState]
          IN  /\ rit = r.it
              /\ returns = <<r>>

\* a ValPairIter is constructed over the two key lists
InitVal ==
    \E uState \in Holds(ValPairIter.it.userState, V_UserState) :
        LET r == [ValPairIter EXCEPT !.it.userState = uState]
        IN  /\ vit = r.it
            /\ vreturns = <<r>>

\* A run walks two transition lists, or two key lists, or two lists of one-key
\* ranges with both kinds of iterator.
Init ==
    /\ OthersIdle
    /\ isSigned \in BOOLEAN
    /\ endCalls = 0
    /\ vEndCalls = 0
    /\ \/ /\ InitRange
          /\ vlist1 = <<>> /\ vlist2 = <<>>
          /\ vit = NotConstructed /\ vreturns = <<>>
       \/ /\ list1 = <<>> /\ list2 = <<>>
          /\ rit = NotConstructed /\ returns = <<>>
          /\ vlist1 \in KeyLists /\ vlist2 \in KeyLists
          /\ InitVal
       \/ /\ InitRange
          /\ SingleKeys(list1) /\ SingleKeys(list2)
          /\ vlist1 = KeysOf(list1) /\ vlist2 = KeysOf(list2)
          /\ InitVal

Next ==
    \/ entryConsumeS1Range
    \/ entryConsumeS2Range
    \/ entryOnlyInS1Range
    \/ entryOnlyInS2Range
    \/ entryS1SticksOutBreak
    \/ entryS1SticksOut
    \/ entryS2SticksOutBreak
    \/ entryS2SticksOut
    \/ entryS2DragsBehindBreak
    \/ entryS2DragsBehind
    \/ entryS1DragsBehindBreak
    \/ entryS1DragsBehind
    \/ entryExactOverlap
    \/ entryEnd
    \/ V_entryConsumeS1Range
    \/ V_entryConsumeS2Range
    \/ V_entryOnlyInS1Range
    \/ V_entryOnlyInS2Range
    \/ V_entryExactOverlap
    \/ V_entryEnd

Spec == Init /\ [][Next]_vars

(***************************************************************************)
(* Reading the history of a RangePairIter.                                 *)
(***************************************************************************)
\* the returns before the one that reached End: the events reported so far
Events ==
    IF returns # <<>> /\ returns[Len(returns)].it.itState = "End"
    THEN SubSeq(returns, 1, Len(returns) - 1)
    ELSE returns

IsBreak(r) == r.it.userState \in {"BreakS1", "BreakS2"}

IsSegment(r) == r.it.userState \in {"RangeInS1", "RangeInS2", "RangeOverlap"}

\* the NextTrans that holds the range an event reports
SegTel(r) == IF r.it.userState = "RangeInS2" THEN r.it.s2Tel ELSE r.it.s1Tel

\* key k lies in the range lowKey .. highKey
InRange(k, lowKey, highKey) == ~lt(k, lowKey) /\ ~lt(highKey, k)

\* key k lies in a range of list
InList(k, list) == \E t \in 1 .. Len(list) : InRange(k, list[t].lowKey, list[t].highKey)

\* the keys of the range lowKey .. highKey
Covered(lowKey, highKey) == {k \in Keys : ~lt(k, lowKey) /\ ~lt(highKey, k)}

ListKeys(list) ==
    UNION {Covered(list[i].lowKey, list[i].highKey) : i \in 1 .. Len(list)}

\* the segment events of ev that report key k
Reporting(ev, k) ==
    {i \in 1 .. Len(ev) :
        IsSegment(ev[i]) /\ InRange(k, SegTel(ev[i]).lowKey, SegTel(ev[i]).highKey)}

\* C1: the segments reported by RangeInS1, RangeInS2 and RangeOverlap events are
\* pairwise non-overlapping and strictly increasing in lowKey in emission order.
C1_SegmentsIncreasing ==
    LET ev == Events
    IN
        \A i, j \in 1 .. Len(ev) :
            (i < j /\ IsSegment(ev[i]) /\ IsSegment(ev[j])) =>
                /\ lt(SegTel(ev[i]).lowKey, SegTel(ev[j]).lowKey)
                /\ ~\E k \in Keys :
                        /\ InRange(k, SegTel(ev[i]).lowKey, SegTel(ev[i]).highKey)
                        /\ InRange(k, SegTel(ev[j]).lowKey, SegTel(ev[j]).highKey)

\* a finished run that broke a range and reported at least three segments
C1_Witness ==
    LET ev == Events
    IN
        /\ rit.itState = "End"
        /\ \E i \in 1 .. Len(ev) : IsBreak(ev[i])
        /\ Cardinality({i \in 1 .. Len(ev) : IsSegment(ev[i])}) >= 3

\* C2: every key of list 1 or list 2 is reported in exactly one segment of a
\* complete run, labelled RangeInS1 iff it is only in list 1, RangeInS2 iff it is
\* only in list 2 and RangeOverlap iff it is in both; no other key is reported.
C2_ExactCover ==
    LET ev == Events
    IN
        \A k \in Keys :
            LET in1 == InList(k, list1)
                in2 == InList(k, list2)
                by == Reporting(ev, k)
            IN  /\ Cardinality(by) <= 1
                /\ \A i \in by :
                      /\ (ev[i].it.userState = "RangeInS1") <=> (in1 /\ ~in2)
                      /\ (ev[i].it.userState = "RangeInS2") <=> (in2 /\ ~in1)
                      /\ (ev[i].it.userState = "RangeOverlap") <=> (in1 /\ in2)
                /\ (~in1 /\ ~in2) => by = {}
                /\ (rit.itState = "End" /\ (in1 \/ in2)) => Cardinality(by) = 1

\* a finished run over lists with keys in list 1 only, in list 2 only, in both
\* and in neither
C2_Witness ==
    /\ rit.itState = "End"
    /\ ListKeys(list1) \ ListKeys(list2) # {}
    /\ ListKeys(list2) \ ListKeys(list1) # {}
    /\ ListKeys(list1) \cap ListKeys(list2) # {}
    /\ Keys \ (ListKeys(list1) \cup ListKeys(list2)) # {}

\* C3: a BreakS1 (BreakS2) event is followed on the next findNext call by a
\* RangeInS1 or RangeOverlap (RangeInS2 or RangeOverlap) event reporting the
\* s1Tel (s2Tel) range seen during the Break; a Break is never the last event
\* before End and two Breaks are never adjacent.
C3_BreakThenSegment ==
    LET ev == Events
    IN
        \A i \in 1 .. Len(ev) :
            LET e == ev[i].it
            IN  IsBreak(ev[i]) =>
                  /\ rit.itState = "End" => i < Len(ev)
                  /\ i < Len(returns) =>
                        LET f == returns[i + 1].it
                        IN  /\ f.itState # "End"
                            /\ e.userState = "BreakS1" =>
                                  /\ f.userState \in {"RangeInS1", "RangeOverlap"}
                                  /\ f.s1Tel.lowKey = e.s1Tel.lowKey
                                  /\ f.s1Tel.highKey = e.s1Tel.highKey
                            /\ e.userState = "BreakS2" =>
                                  /\ f.userState \in {"RangeInS2", "RangeOverlap"}
                                  /\ f.s2Tel.lowKey = e.s2Tel.lowKey
                                  /\ f.s2Tel.highKey = e.s2Tel.highKey

\* a finished run with a BreakS1 and a BreakS2, one followed by a RangeOverlap
\* and the other by the segment only its own list has
C3_Witness ==
    LET ev == Events
    IN
        /\ rit.itState = "End"
        /\ \E i, j \in 1 .. (Len(ev) - 1) :
              /\ ev[i].it.userState = "BreakS1"
              /\ ev[j].it.userState = "BreakS2"
              /\ {ev[i + 1].it.userState, ev[j + 1].it.userState}
                    \in {{"RangeOverlap", "RangeInS2"}, {"RangeOverlap", "RangeInS1"}}

\* the loop head saw both lists at an element and the two ranges overlap
HeadsOverlap(heads) ==
    /\ heads # <<>>
    /\ heads[1].trans # 0
    /\ heads[2].trans # 0
    /\ ~lt(heads[1].highKey, heads[2].lowKey)
    /\ ~lt(heads[2].highKey, heads[1].lowKey)

\* NextTrans t is at the element that follows element ptr of list, or at the end
AdvancedFrom(list, ptr, t) ==
    /\ t.trans = (IF ptr < Len(list) THEN ptr + 1 ELSE 0)
    /\ t.trans # 0 => /\ t.lowKey = list[t.trans].lowKey
                      /\ t.highKey = list[t.trans].highKey

\* C4: when the heads a and b overlap and a.low < b.low, BreakS1 and then
\* RangeInS1 for [a.low, b.low-1] are emitted, after which list 1's head is the
\* remainder [b.low, a.high] on a's transition and list 2's head is untouched;
\* symmetrically BreakS2 and RangeInS2 when b.low < a.low.
C4_SticksOut ==
    \A i \in 1 .. Len(returns) :
        LET r == returns[i]
            a == r.heads[1]
            b == r.heads[2]
        IN  HeadsOverlap(r.heads) =>
              /\ lt(a.lowKey, b.lowKey) =>
                    /\ r.it.itState # "End"
                    /\ r.it.userState = "BreakS1"
                    /\ rit.itState = "End" => i + 2 <= Len(returns)
                    /\ i + 1 <= Len(returns) =>
                          LET f == returns[i + 1].it
                          IN  /\ f.itState # "End"
                              /\ f.userState = "RangeInS1"
                              /\ f.s1Tel.lowKey = a.lowKey
                              /\ KeyVal(f.s1Tel.highKey) = KeyVal(b.lowKey) - 1
                              /\ f.s1Tel.trans = a.trans
                              /\ f.s2Tel = b
                    /\ i + 2 <= Len(returns) =>
                          returns[i + 2].heads = <<[a EXCEPT !.lowKey = b.lowKey], b>>
              /\ lt(b.lowKey, a.lowKey) =>
                    /\ r.it.itState # "End"
                    /\ r.it.userState = "BreakS2"
                    /\ rit.itState = "End" => i + 2 <= Len(returns)
                    /\ i + 1 <= Len(returns) =>
                          LET f == returns[i + 1].it
                          IN  /\ f.itState # "End"
                              /\ f.userState = "RangeInS2"
                              /\ f.s2Tel.lowKey = b.lowKey
                              /\ KeyVal(f.s2Tel.highKey) = KeyVal(a.lowKey) - 1
                              /\ f.s2Tel.trans = b.trans
                              /\ f.s1Tel = a
                    /\ i + 2 <= Len(returns) =>
                          returns[i + 2].heads = <<a, [b EXCEPT !.lowKey = a.lowKey]>>

\* a run in which list 1 stuck out and its remainder was installed, and so did
\* list 2
C4_Witness ==
    \E i, j \in 1 .. Len(returns) :
        /\ HeadsOverlap(returns[i].heads)
        /\ HeadsOverlap(returns[j].heads)
        /\ lt(returns[i].heads[1].lowKey, returns[i].heads[2].lowKey)
        /\ lt(returns[j].heads[2].lowKey, returns[j].heads[1].lowKey)
        /\ i + 2 <= Len(returns)
        /\ j + 2 <= Len(returns)

\* C5: when the heads have equal lowKey and a.high < b.high, BreakS2 and then
\* RangeOverlap for [b.low, a.high] are emitted, list 1 advances to its next
\* element and list 2's head becomes [a.high+1, b.high] on b's transition
\* (symmetrically BreakS1 when b.high < a.high); when the high keys are equal
\* too, one RangeOverlap with no Break is emitted and both lists advance.
C5_DragsBehind ==
    \A i \in 1 .. Len(returns) :
        LET r == returns[i]
            a == r.heads[1]
            b == r.heads[2]
        IN  (HeadsOverlap(r.heads) /\ a.lowKey = b.lowKey) =>
              /\ r.it.itState # "End"
              /\ rit.itState = "End" => i + 1 <= Len(returns)
              /\ lt(a.highKey, b.highKey) =>
                    /\ r.it.userState = "BreakS2"
                    /\ rit.itState = "End" => i + 2 <= Len(returns)
                    /\ i + 1 <= Len(returns) =>
                          LET f == returns[i + 1].it
                          IN  /\ f.itState # "End"
                              /\ f.userState = "RangeOverlap"
                              /\ f.s1Tel = a
                              /\ f.s2Tel.lowKey = b.lowKey
                              /\ f.s2Tel.highKey = a.highKey
                              /\ f.s2Tel.trans = b.trans
                    /\ i + 2 <= Len(returns) =>
                          LET h == returns[i + 2].heads
                          IN  /\ h # <<>>
                              /\ AdvancedFrom(list1, a.trans, h[1])
                              /\ KeyVal(h[2].lowKey) = KeyVal(a.highKey) + 1
                              /\ h[2].highKey = b.highKey
                              /\ h[2].trans = b.trans
              /\ lt(b.highKey, a.highKey) =>
                    /\ r.it.userState = "BreakS1"
                    /\ rit.itState = "End" => i + 2 <= Len(returns)
                    /\ i + 1 <= Len(returns) =>
                          LET f == returns[i + 1].it
                          IN  /\ f.itState # "End"
                              /\ f.userState = "RangeOverlap"
                              /\ f.s2Tel = b
                              /\ f.s1Tel.lowKey = a.lowKey
                              /\ f.s1Tel.highKey = b.highKey
                              /\ f.s1Tel.trans = a.trans
                    /\ i + 2 <= Len(returns) =>
                          LET h == returns[i + 2].heads
                          IN  /\ h # <<>>
                              /\ AdvancedFrom(list2, b.trans, h[2])
                              /\ KeyVal(h[1].lowKey) = KeyVal(b.highKey) + 1
                              /\ h[1].highKey = a.highKey
                              /\ h[1].trans = a.trans
              /\ a.highKey = b.highKey =>
                    /\ r.it.userState = "RangeOverlap"
                    /\ r.it.s1Tel = a
                    /\ r.it.s2Tel = b
                    /\ i + 1 <= Len(returns) =>
                          LET h == returns[i + 1].heads
                          IN  /\ h # <<>>
                              /\ AdvancedFrom(list1, a.trans, h[1])
                              /\ AdvancedFrom(list2, b.trans, h[2])

\* a finished run with heads of equal lowKey where list 1 ended first, where
\* list 2 ended first, and where both ended together
C5_Witness ==
    /\ rit.itState = "End"
    /\ \E i, j, k \in 1 .. Len(returns) :
          /\ HeadsOverlap(returns[i].heads)
          /\ HeadsOverlap(returns[j].heads)
          /\ HeadsOverlap(returns[k].heads)
          /\ returns[i].heads[1].lowKey = returns[i].heads[2].lowKey
          /\ returns[j].heads[1].lowKey = returns[j].heads[2].lowKey
          /\ returns[k].heads[1].lowKey = returns[k].heads[2].lowKey
          /\ lt(returns[i].heads[1].highKey, returns[i].heads[2].highKey)
          /\ lt(returns[j].heads[2].highKey, returns[j].heads[1].highKey)
          /\ returns[k].heads[1].highKey = returns[k].heads[2].highKey

\* C6: whenever RangeOverlap is reported, s1Tel and s2Tel hold the same lowKey
\* and the same highKey and both s1Tel.trans and s2Tel.trans are non-null.
C6_OverlapCoincides ==
    LET ev == Events
    IN
        \A i \in 1 .. Len(ev) :
            LET e == ev[i].it
            IN  e.userState = "RangeOverlap" =>
                  /\ e.s1Tel.lowKey = e.s2Tel.lowKey
                  /\ e.s1Tel.highKey = e.s2Tel.highKey
                  /\ e.s1Tel.trans # 0
                  /\ e.s2Tel.trans # 0

\* a RangeOverlap reported for the top half of a broken range of list 2 and
\* another for the top half of a broken range of list 1
C6_Witness ==
    LET ev == Events
    IN
        \E i, j \in 1 .. Len(ev) :
            /\ ev[i].it.userState = "RangeOverlap"
            /\ ev[j].it.userState = "RangeOverlap"
            /\ ev[i].it.itState = "S2DragsBehind"
            /\ ev[j].it.itState = "S1DragsBehind"

\* the range of NextTrans t lies inside the range of the list element t.trans
InsideElement(list, t) ==
    /\ t.trans \in 1 .. Len(list)
    /\ ~lt(t.lowKey, list[t.trans].lowKey)
    /\ ~lt(t.highKey, t.lowKey)
    /\ ~lt(list[t.trans].highKey, t.highKey)

\* C7: at every RangeInS1, RangeOverlap and BreakS1 event s1Tel.trans is the
\* element of list 1 whose range contains the s1Tel range, likewise s2Tel.trans
\* at RangeInS2, RangeOverlap and BreakS2 events, and so is the remainder
\* installed after a break.
C7_TransOwnsRange ==
    \A i \in 1 .. Len(returns) :
        LET e == returns[i].it
            h == returns[i].heads
        IN  /\ (e.itState # "End" /\ e.userState \in {"RangeInS1", "RangeOverlap", "BreakS1"})
                  => InsideElement(list1, e.s1Tel)
            /\ (e.itState # "End" /\ e.userState \in {"RangeInS2", "RangeOverlap", "BreakS2"})
                  => InsideElement(list2, e.s2Tel)
            /\ (i > 1 /\ returns[i - 1].it.itState \in {"S1SticksOut", "S1DragsBehind"})
                  => (h # <<>> /\ InsideElement(list1, h[1]))
            /\ (i > 1 /\ returns[i - 1].it.itState \in {"S2SticksOut", "S2DragsBehind"})
                  => (h # <<>> /\ InsideElement(list2, h[2]))

\* a run that installed a remainder of the second element of list 1 after list 2
\* had been broken at its first element
C7_Witness ==
    \E i \in 2 .. Len(returns) :
        /\ returns[i - 1].it.itState = "S1DragsBehind"
        /\ returns[i].heads[1].trans = 2
        /\ returns[i - 1].it.bottomTrans2 = 1
        /\ returns[i].it.itState # "End"

\* the NextTrans of list 1 (side 1) or of list 2 (side 2) in a return
TelOf(side, r) == IF side = 1 THEN r.it.s1Tel ELSE r.it.s2Tel

\* the events that report a segment of the list of that side
SegmentOf(side, r) ==
    r.it.userState \in {IF side = 1 THEN "RangeInS1" ELSE "RangeInS2", "RangeOverlap"}

\* the first n events of ev have reported the list of that side to the end of
\* its last element
Exhausted(ev, n, side, list) ==
    \/ list = <<>>
    \/ \E i \in 1 .. n :
          /\ SegmentOf(side, ev[i])
          /\ TelOf(side, ev[i]).trans = Len(list)
          /\ TelOf(side, ev[i]).highKey = list[Len(list)].highKey

\* whole elements from .. Len(list) as ranges still to report
Whole(list, from) ==
    [m \in 1 .. (Len(list) + 1 - from) |->
        [lowVal |-> KeyVal(list[from + m - 1].lowKey),
         highKey |-> list[from + m - 1].highKey,
         trans |-> from + m - 1]]

\* what the first n events of ev leave to report of the list of that side: the
\* rest of the element reported last, if it was not reported to its end, and the
\* elements after it
Rest(ev, n, side, list) ==
    LET seen == {i \in 1 .. n : SegmentOf(side, ev[i])}
    IN  IF seen = {} THEN Whole(list, 1)
        ELSE LET last == TelOf(side, ev[CHOOSE i \in seen : \A j \in seen : j <= i])
             IN  IF last.highKey = list[last.trans].highKey
                 THEN Whole(list, last.trans + 1)
                 ELSE <<[lowVal |-> KeyVal(last.highKey) + 1,
                         highKey |-> list[last.trans].highKey,
                         trans |-> last.trans]>> \o Whole(list, last.trans + 1)

\* from event n + 1 on, every event is `label` and reports what is left of the
\* list of that side, one event for each range in list order
Drains(ev, n, side, list, label) ==
    LET rest == Rest(ev, n, side, list)
    IN  /\ Len(ev) - n <= Len(rest)
        /\ rit.itState = "End" => Len(ev) - n = Len(rest)
        /\ \A j \in 1 .. (Len(ev) - n) :
              LET t == TelOf(side, ev[n + j])
              IN  /\ ev[n + j].it.userState = label
                  /\ KeyVal(t.lowKey) = rest[j].lowVal
                  /\ t.highKey = rest[j].highKey
                  /\ t.trans = rest[j].trans

\* C8: once one list is exhausted, every remaining event is the other list's
\* RangeInS1/RangeInS2 event, one per remaining element in list order (the first
\* possibly the remainder of a broken range), with no Break and no RangeOverlap,
\* and then the iterator is at End.
C8_DrainOther ==
    LET ev == Events
    IN
        \A n \in 0 .. Len(ev) :
            /\ Exhausted(ev, n, 1, list1) => Drains(ev, n, 2, list2, "RangeInS2")
            /\ Exhausted(ev, n, 2, list2) => Drains(ev, n, 1, list1, "RangeInS1")

\* a finished run where list 1 was exhausted by an event that left list 2 with
\* the rest of a broken range and one more element
C8_Witness ==
    LET ev == Events
    IN
        /\ rit.itState = "End"
        /\ \E n \in 1 .. Len(ev) :
              /\ Exhausted(ev, n, 1, list1)
              /\ ~Exhausted(ev, n - 1, 1, list1)
              /\ Len(ev) = n + 2
              /\ ev[n + 1].it.s2Tel.lowKey # list2[ev[n + 1].it.s2Tel.trans].lowKey

\* C9: once an iterator is at End, a further findNext call leaves it at End,
\* reports nothing and does not reload s1Tel or s2Tel; no iterator returns to
\* Begin.
C9_SinglePass ==
    [][/\ rit.itState = "End" => (rit' = rit /\ returns' = returns)
       /\ vit.itState = "End" => (vit' = vit /\ vreturns' = vreturns)
       /\ rit'.itState # "Begin"
       /\ vit'.itState # "Begin"]_vars

\* findNext has been called on a RangePairIter and on a ValPairIter that had
\* both reported at least two events before reaching End
C9_Witness ==
    /\ endCalls >= 1
    /\ vEndCalls >= 1
    /\ Len(returns) > 2
    /\ Len(vreturns) > 2

\* findNext is called on the RangePairIter for as long as a call is possible
LiveSpec == Spec /\ WF_vars(RangePairIter_findNext)

\* C10: repeated findNext calls reach End after finitely many calls and at most
\* 4 * (|L1| + |L2|) events are reported before End; each call returns with at
\* most one new event, which the iterator's state then shows.
C10_EventBound ==
    /\ [](LET ev == Events
          IN  /\ Len(ev) <= 4 * (Len(list1) + Len(list2))
              /\ \A i \in 1 .. Len(ev) : ev[i].it.itState # "End"
              /\ rit.itState # "None" => rit = returns[Len(returns)].it)
    /\ [][Len(returns') <= Len(returns) + 1]_vars
    /\ <>(rit.itState \in {"End", "None"})

\* a finished run over two full-length lists that reported two events for every
\* element
C10_Witness ==
    LET ev == Events
    IN
        /\ rit.itState = "End"
        /\ Len(list1) = MaxLen
        /\ Len(list2) = MaxLen
        /\ Len(ev) >= 2 * (Len(list1) + Len(list2)) - 1

(***************************************************************************)
(* Reading the history of a ValPairIter.                                   *)
(***************************************************************************)
\* the returns of the ValPairIter before the one that reached End
VEvents ==
    IF vreturns # <<>> /\ vreturns[Len(vreturns)].it.itState = "End"
    THEN SubSeq(vreturns, 1, Len(vreturns) - 1)
    ELSE vreturns

\* the key an event of the ValPairIter reports
VKey(r) == IF r.it.userState = "RangeInS2" THEN r.it.s2Tel.key ELSE r.it.s1Tel.key

\* key k is the key of an element of list
VInList(k, list) == \E t \in 1 .. Len(list) : list[t].key = k

\* findNext is called on the ValPairIter for as long as a call is possible
VLiveSpec == Spec /\ WF_vars(ValPairIter_findNext)

\* C11: a ValPairIter over two key-sorted lists of unique keys reports every key
\* of either list exactly once, in strictly increasing key order, as RangeInS1
\* iff the key is only in list 1, RangeInS2 iff only in list 2 and RangeOverlap
\* iff in both; it reports no Break event, and it reaches End.
C11_ValCover ==
    /\ [](LET ev == VEvents
          IN  /\ \A i \in 1 .. Len(ev) :
                    LET k == VKey(ev[i])
                        in1 == VInList(k, vlist1)
                        in2 == VInList(k, vlist2)
                        label == ev[i].it.userState
                    IN  /\ label \in {"RangeInS1", "RangeInS2", "RangeOverlap"}
                        /\ in1 \/ in2
                        /\ (label = "RangeInS1") <=> (in1 /\ ~in2)
                        /\ (label = "RangeInS2") <=> (in2 /\ ~in1)
                        /\ (label = "RangeOverlap") <=> (in1 /\ in2)
                        /\ label = "RangeOverlap" => ev[i].it.s2Tel.key = k
                        /\ \A j \in (i + 1) .. Len(ev) : k < VKey(ev[j])
              /\ vit.itState = "End" =>
                    /\ \A t \in 1 .. Len(vlist1) :
                          \E i \in 1 .. Len(ev) : VKey(ev[i]) = vlist1[t].key
                    /\ \A t \in 1 .. Len(vlist2) :
                          \E i \in 1 .. Len(ev) : VKey(ev[i]) = vlist2[t].key)
    /\ <>(vit.itState \in {"End", "None"})

\* a finished run of a ValPairIter that reported a key of list 1 only, a key of
\* list 2 only and a key of both
C11_Witness ==
    /\ vit.itState = "End"
    /\ {VEvents[i].it.userState : i \in 1 .. Len(VEvents)}
          = {"RangeInS1", "RangeInS2", "RangeOverlap"}

(***************************************************************************)
(* Action: the reference counters and numRefs().                           *)
(***************************************************************************)
\* no iterator is constructed in a run about another kind of object
ItersIdle ==
    /\ isSigned = FALSE
    /\ list1 = <<>> /\ list2 = <<>>
    /\ rit = NotConstructed /\ returns = <<>> /\ endCalls = 0
    /\ vlist1 = <<>> /\ vlist2 = <<>>
    /\ vit = NotConstructed /\ vreturns = <<>> /\ vEndCalls = 0

RefCounts == 0 .. MaxRefs

Action ==
    [numTransRefs : RefCounts, numToStateRefs : RefCounts,
     numFromStateRefs : RefCounts, numEofRefs : RefCounts,
     numCondRefs : RefCounts, numNfaRefs : RefCounts]

numRefs(a) ==
    a.numTransRefs + a.numToStateRefs + a.numFromStateRefs + a.numEofRefs + a.numNfaRefs

\* numRefs() is called on the action
callNumRefs ==
    /\ numRefsOut = <<>>
    /\ numRefsOut' = <<numRefs(action)>>
    /\ UNCHANGED <<action, exceptAction>>

ActionInit ==
    /\ ItersIdle
    /\ LaterIdle
    /\ GraphIdle
    /\ FillIdle
    /\ PriorsIdle
    /\ TransIdle
    /\ CondIdle
    /\ TransApIdle
    /\ action \in Action
    /\ numRefsOut = <<>>

ActionNext == callNumRefs

ActionSpec == ActionInit /\ [][ActionNext]_vars

\* C12: numRefs() equals the sum of all six reference counters of the action,
\* so an action referenced only as a condition has a non-zero reference count.
C12_NumRefsSumsSix ==
    \A i \in 1 .. Len(numRefsOut) :
        /\ numRefsOut[i] = action.numTransRefs + action.numToStateRefs
                            + action.numFromStateRefs + action.numEofRefs
                            + action.numCondRefs + action.numNfaRefs
        /\ action.numCondRefs > 0 => numRefsOut[i] # 0

(***************************************************************************)
(* PriorDesc, PriorEl, PriorElCmp and PriorTable. There is one PriorDesc   *)
(* for each key and priority, and a pointer to it is written as the        *)
(* PriorDesc itself; a PriorTable is the sorted vector of its elements.    *)
(***************************************************************************)
PriorDesc == [key : 0 .. MaxPriorKey, priority : 0 .. MaxPriority]

PriorEl(ordering, desc) == [ordering |-> ordering, desc |-> desc]

Orderings == 1 .. MaxOrdering

PriorElCmp_byDesc(pel1, pel2) ==
    IF pel1.desc = pel2.desc THEN 0
    ELSE IF pel1.desc.key < pel2.desc.key THEN -1
    ELSE 1

PriorElCmp_compare(pel1, pel2) ==
    IF pel1.desc.key < pel2.desc.key THEN -1
    ELSE IF pel1.desc.key > pel2.desc.key THEN 1
    ELSE 0

\* the index of the element of table that compares equal to el, or 0
PriorTable_find(table, el) ==
    LET hits == {i \in 1 .. Len(table) : PriorElCmp_compare(table[i], el) = 0}
    IN  IF hits = {} THEN 0 ELSE CHOOSE i \in hits : \A j \in hits : i <= j

\* table with el put after the elements that compare less than el
PriorTable_insert(table, el) ==
    LET pos == Cardinality({i \in 1 .. Len(table) : PriorElCmp_compare(table[i], el) < 0})
    IN  SubSeq(table, 1, pos) \o <<el>> \o SubSeq(table, pos + 1, Len(table))

\* of two elements on the same key the one of higher priority is kept, and of
\* equal priorities the one of the later ordering
PriorTable_wins(new, old) ==
    \/ new.desc.priority > old.desc.priority
    \/ /\ new.desc.priority = old.desc.priority
       /\ new.ordering >= old.ordering

PriorTable_setPrior(table, ordering, desc) ==
    LET el == PriorEl(ordering, desc)
        lastHit == PriorTable_find(table, el)
    IN  IF lastHit = 0 THEN PriorTable_insert(table, el)
        ELSE IF PriorTable_wins(el, table[lastHit])
        THEN [table EXCEPT ![lastHit] = el]
        ELSE table

RECURSIVE PriorTable_setPriors(_, _)
PriorTable_setPriors(table, other) ==
    IF other = <<>> THEN table
    ELSE PriorTable_setPriors(
            PriorTable_setPrior(table, Head(other).ordering, Head(other).desc),
            Tail(other))

\* the tables that hold, for each key of a set of keys, one element
PriorTablesOn(keys) ==
    {PriorTable_setPriors(<<>>, [k \in 1 .. Cardinality(keys) |-> f[k - 1]]) :
        f \in [0 .. (Cardinality(keys) - 1) -> [ordering : Orderings, desc : PriorDesc]]}

\* the values of a PriorTable: what calls of setPrior build from the empty table
PriorTables ==
    {table \in UNION {PriorTablesOn(0 .. (n - 1)) : n \in 0 .. (MaxPriorKey + 1)} :
        \A i \in 1 .. (Len(table) - 1) : table[i].desc.key < table[i + 1].desc.key}

\* setPrior( ordering, desc ) is called on the table
setPrior ==
    \E ordering \in Orderings, desc \in PriorDesc :
        LET lastHit == PriorTable_find(priorTable, PriorEl(ordering, desc))
            after == PriorTable_setPrior(priorTable, ordering, desc)
        IN  /\ priorTable' = after
            /\ priorHit' = IF lastHit = 0 THEN "inserted"
                           ELSE IF priorTable[lastHit].desc = desc THEN "same"
                           ELSE IF after = priorTable THEN "kept"
                           ELSE "replaced"
            /\ UNCHANGED exceptPrior

\* setPriors( other ) is called on the table
setPriors ==
    \E other \in PriorTables :
        /\ priorTable' = PriorTable_setPriors(priorTable, other)
        /\ priorHit' = "none"
        /\ UNCHANGED exceptPrior

PriorInit ==
    /\ ItersIdle
    /\ LaterIdle
    /\ GraphIdle
    /\ FillIdle
    /\ ActionIdle
    /\ TransIdle
    /\ CondIdle
    /\ TransApIdle
    /\ priorTable = <<>>
    /\ priorHit = "none"

PriorNext == setPrior \/ setPriors

PriorSpec == PriorInit /\ [][PriorNext]_vars

\* C13: after any sequence of setPrior and setPriors calls a PriorTable holds at
\* most one PriorEl per descriptor key, whatever the orderings and descriptors.
C13_OnePerKey ==
    \A i, j \in 1 .. Len(priorTable) :
        i # j => priorTable[i].desc.key # priorTable[j].desc.key

\* a setPrior call met an element of another descriptor on its key and replaced
\* it, in a table that holds two keys
C13_Witness ==
    /\ priorHit = "replaced"
    /\ Len(priorTable) = 2

(***************************************************************************)
(* ActionTable, LmActionTable and TransData. A table is the sorted vector  *)
(* of its elements; an Action or a LongestMatchPart is addressed by a      *)
(* number, a transition by its index in trans.                             *)
(***************************************************************************)
Actions == 1 .. MaxActions

\* mutant: the value is put on the key also when the table holds the key
SBstMap_insert_always(table, key, value) ==
    LET pos == Cardinality({i \in 1 .. Len(table) : table[i].key < key})
    IN  SubSeq(table, 1, pos) \o <<[key |-> key, value |-> value]>>
           \o SubSeq(table, pos + 1, Len(table))

\* table with value put on key, unless the table holds the key already
SBstMap_insert(table, key, value) ==
    IF \E i \in 1 .. Len(table) : table[i].key = key THEN table
    ELSE LET pos == Cardinality({i \in 1 .. Len(table) : table[i].key < key})
         IN  SubSeq(table, 1, pos) \o <<[key |-> key, value |-> value]>>
                \o SubSeq(table, pos + 1, Len(table))

ActionTable_setAction(table, ordering, act) == SBstMap_insert(table, ordering, act)

RECURSIVE ActionTable_setActions(_, _)
ActionTable_setActions(table, other) ==
    IF other = <<>> THEN table
    ELSE ActionTable_setActions(
            ActionTable_setAction(table, Head(other).key, Head(other).value),
            Tail(other))

LmActionTable_setAction(table, ordering, act) == SBstMap_insert(table, ordering, act)

RECURSIVE LmActionTable_setActions(_, _)
LmActionTable_setActions(table, other) ==
    IF other = <<>> THEN table
    ELSE LmActionTable_setActions(
            LmActionTable_setAction(table, Head(other).key, Head(other).value),
            Tail(other))

TransData == [actionTable |-> <<>>, priorTable |-> <<>>, lmActionTable |-> <<>>]

addInTrans_noPriors(t, destTrans, srcTrans) ==
    [t EXCEPT
        ![destTrans].lmActionTable =
            LmActionTable_setActions(@, t[srcTrans].lmActionTable),
        ![destTrans].actionTable =
            ActionTable_setActions(@, t[srcTrans].actionTable)]

\* addInTrans on the transitions t, destTrans and srcTrans being addresses
addInTrans(t, destTrans, srcTrans) ==
    IF srcTrans = destTrans
    THEN [t EXCEPT
            ![destTrans].lmActionTable =
                LmActionTable_setActions(@, t[srcTrans].lmActionTable),
            ![destTrans].actionTable =
                ActionTable_setActions(@, t[srcTrans].actionTable)]
    ELSE [t EXCEPT
            ![destTrans].lmActionTable =
                LmActionTable_setActions(@, t[srcTrans].lmActionTable),
            ![destTrans].actionTable =
                ActionTable_setActions(@, t[srcTrans].actionTable),
            ![destTrans].priorTable =
                PriorTable_setPriors(@, t[srcTrans].priorTable)]

\* The calls that put an element into a table of one of two transitions, each
\* with a number: an action (or longest-match part) into an action table, or a
\* descriptor into the priority table.
NumActionCalls == 2 * 2 * MaxOrdering * MaxActions

NumPriorCalls == 2 * MaxOrdering * (MaxPriorKey + 1) * (MaxPriority + 1)

SetCallAt(n) ==
    IF n < NumActionCalls
    THEN [t |-> 1 + (n \div (2 * MaxOrdering * MaxActions)),
          table |-> IF (n \div (MaxOrdering * MaxActions)) % 2 = 0
                    THEN "actionTable" ELSE "lmActionTable",
          ordering |-> 1 + ((n \div MaxActions) % MaxOrdering),
          action |-> 1 + (n % MaxActions)]
    ELSE LET m == n - NumActionCalls
         IN  [t |-> 1 + (m \div (MaxOrdering * (MaxPriorKey + 1) * (MaxPriority + 1))),
              table |-> "priorTable",
              ordering |-> 1 + ((m \div ((MaxPriorKey + 1) * (MaxPriority + 1))) % MaxOrdering),
              desc |-> [key |-> (m \div (MaxPriority + 1)) % (MaxPriorKey + 1),
                        priority |-> m % (MaxPriority + 1)]]

SetCall(t, c) ==
    IF c.table = "actionTable"
    THEN [t EXCEPT ![c.t].actionTable = ActionTable_setAction(@, c.ordering, c.action)]
    ELSE IF c.table = "lmActionTable"
    THEN [t EXCEPT ![c.t].lmActionTable = LmActionTable_setAction(@, c.ordering, c.action)]
    ELSE [t EXCEPT ![c.t].priorTable = PriorTable_setPrior(@, c.ordering, c.desc)]

RECURSIVE Built(_, _)
Built(t, calls) ==
    IF calls = <<>> THEN t ELSE Built(SetCall(t, SetCallAt(Head(calls))), Tail(calls))

\* up to MaxSetCalls different calls; calls on different elements commute and
\* a call on an element that is there already adds nothing, so one order of
\* each set of calls builds every value
CallLists ==
    {calls \in UNION {[1 .. n -> 0 .. (NumActionCalls + NumPriorCalls - 1)] :
                        n \in 0 .. MaxSetCalls} :
        \A i \in 1 .. (Len(calls) - 1) : calls[i] < calls[i + 1]}

\* addInTrans( destTrans, srcTrans ) is called
callAddInTrans ==
    \E destTrans \in 1 .. 1, srcTrans \in 1 .. 2 :
        /\ addedIn = <<>>
        /\ trans' = addInTrans(trans, destTrans, srcTrans)
        /\ addedIn' = <<[destTrans |-> destTrans, srcTrans |-> srcTrans, before |-> trans]>>
        /\ UNCHANGED exceptTrans

TransInit ==
    /\ ItersIdle
    /\ LaterIdle
    /\ GraphIdle
    /\ FillIdle
    /\ ActionIdle
    /\ PriorsIdle
    /\ CondIdle
    /\ TransApIdle
    /\ \E calls \in CallLists : trans = Built(<<TransData, TransData>>, calls)
    /\ addedIn = <<>>

TransNext == callAddInTrans

TransSpec == TransInit /\ [][TransNext]_vars

\* the keys of a table of key and value elements
MapKeys(table) == {table[i].key : i \in 1 .. Len(table)}

\* the value that a table holds on a key
MapValue(table, key) == (CHOOSE i \in 1 .. Len(table) : table[i].key = key)

\* table `after` is the union by ordering of dest and src, dest's element kept
\* for an ordering in both
UnionByOrdering(after, dest, src) ==
    /\ MapKeys(after) = MapKeys(dest) \cup MapKeys(src)
    /\ \A i, j \in 1 .. Len(after) : i < j => after[i].key < after[j].key
    /\ \A i \in 1 .. Len(after) :
          IF after[i].key \in MapKeys(dest)
          THEN after[i] = dest[MapValue(dest, after[i].key)]
          ELSE after[i] = src[MapValue(src, after[i].key)]

Range(table) == {table[i] : i \in 1 .. Len(table)}

\* priority table `after` holds one element for each key of dest and src, taken
\* from them, and no element of dest or src on its key has a higher priority,
\* or the same priority and a later ordering
PriorsMerged(after, dest, src) ==
    /\ Range(after) \subseteq Range(dest) \cup Range(src)
    /\ \A i, j \in 1 .. Len(after) : i < j => after[i].desc.key < after[j].desc.key
    /\ \A el \in Range(dest) \cup Range(src) :
          \E i \in 1 .. Len(after) :
              /\ after[i].desc.key = el.desc.key
              /\ \/ after[i].desc.priority > el.desc.priority
                 \/ /\ after[i].desc.priority = el.desc.priority
                    /\ after[i].ordering >= el.ordering

\* C14: addInTrans(dest, src) with src # dest leaves dest.actionTable and
\* dest.lmActionTable the union by ordering of dest's and src's entries, dest's
\* entry kept for an ordering in both, merges src's priorities into
\* dest.priorTable, and leaves src's tables unchanged.
C14_AddInTrans ==
    \A c \in 1 .. Len(addedIn) :
        LET dest == addedIn[c].before[addedIn[c].destTrans]
            src == addedIn[c].before[addedIn[c].srcTrans]
            after == trans[addedIn[c].destTrans]
        IN  addedIn[c].srcTrans # addedIn[c].destTrans =>
              /\ UnionByOrdering(after.actionTable, dest.actionTable, src.actionTable)
              /\ UnionByOrdering(after.lmActionTable, dest.lmActionTable, src.lmActionTable)
              /\ PriorsMerged(after.priorTable, dest.priorTable, src.priorTable)
              /\ trans[addedIn[c].srcTrans] = src

\* addInTrans was called with a source that holds another action than dest on
\* an ordering of dest
C14_Witness ==
    \E c \in 1 .. Len(addedIn) :
        LET dest == addedIn[c].before[addedIn[c].destTrans]
            src == addedIn[c].before[addedIn[c].srcTrans]
        IN  /\ addedIn[c].srcTrans # addedIn[c].destTrans
            /\ \E i \in 1 .. Len(dest.actionTable), j \in 1 .. Len(src.actionTable) :
                  /\ dest.actionTable[i].key = src.actionTable[j].key
                  /\ dest.actionTable[i].value # src.actionTable[j].value

(***************************************************************************)
(* CondSpace::fullSize. A machine integer is written as the set of the     *)
(* positions of its one bits (two's complement), bit 0 the lowest.         *)
(***************************************************************************)
\* the int with these bits, converted to long: the sign bit is extended
IntToLong(bits) ==
    IF (IntBits - 1) \in bits THEN bits \cup (IntBits .. (LongBits - 1)) ELSE bits

\* what ( 1 << count ) can evaluate to, 1 and count being ints: the shifted
\* bit while it stays below the sign bit; beyond that the behaviour is
\* undefined, and a build yields the shift by the count's low bits or zero
ShiftLeftOne(count) ==
    IF count < IntBits - 1 THEN {{count}}
    ELSE {{count % IntBits}, {}}

\* the values that fullSize() can return
fullSize(space) ==
    {IntToLong(bits) : bits \in ShiftLeftOne(Cardinality(space.condSet))}

\* fullSize() is called on the condition space
callFullSize ==
    /\ fullSizeOut = <<>>
    /\ \E value \in fullSize(condSpace) : fullSizeOut' = <<value>>
    /\ UNCHANGED <<condSpace, exceptCond>>

CondInit ==
    /\ ItersIdle
    /\ LaterIdle
    /\ GraphIdle
    /\ FillIdle
    /\ ActionIdle
    /\ PriorsIdle
    /\ TransIdle
    /\ TransApIdle
    /\ \E n \in 0 .. MaxConds : condSpace = [condSet |-> 1 .. n]
    /\ fullSizeOut = <<>>

CondNext == callFullSize

CondSpec == CondInit /\ [][CondNext]_vars

\* C15: fullSize() returns exactly 2^n as a long, n being the number of
\* conditions in condSet, for every n >= 0 for which 2^n is representable in a
\* long (n = 0 gives 1).
C15_FullSizeIsPow2 ==
    \A i \in 1 .. Len(fullSizeOut) :
        LET n == Cardinality(condSpace.condSet)
        IN  n <= LongBits - 2 => fullSizeOut[i] = {n}

(***************************************************************************)
(* TransAp: plain(), tcap() and tdap(). A pointer is an address, 0 the     *)
(* null pointer; the casts to the derived classes keep the address.        *)
(***************************************************************************)
TransAp_plain(t) == t.condSpace = 0

TransAp_tcap(t) == IF t.condSpace # 0 THEN t.this ELSE 0

TransAp_tdap_anySpace(t) == IF t.condSpace # 0 THEN t.this ELSE 0

TransAp_tdap(t) == IF t.condSpace = 0 THEN t.this ELSE 0

\* plain(), tcap() and tdap() are called on the transition
callViews ==
    /\ viewsOut = <<>>
    /\ viewsOut' = <<[plain |-> TransAp_plain(transAp),
                      tcap |-> TransAp_tcap(transAp),
                      tdap |-> TransAp_tdap(transAp)]>>
    /\ UNCHANGED <<transAp, exceptTransAp>>

\* a transition on a key range, plain or with one of the condition spaces
TransApInit ==
    /\ ItersIdle
    /\ LaterIdle
    /\ GraphIdle
    /\ FillIdle
    /\ ActionIdle
    /\ PriorsIdle
    /\ TransIdle
    /\ CondIdle
    /\ transAp \in [this : 1 .. MaxLen, lowKey : Keys, highKey : Keys,
                     condSpace : 0 .. MaxCondSpaces]
    /\ viewsOut = <<>>

TransApNext == callViews

TransApSpec == TransApInit /\ [][TransApNext]_vars

\* C16: for every transition exactly one of tdap() and tcap() is non-null:
\* tdap() is non-null iff plain() iff condSpace is null, and tcap() is non-null
\* iff condSpace is not null.
C16_OneView ==
    \A i \in 1 .. Len(viewsOut) :
        LET out == viewsOut[i]
        IN  /\ (out.tdap # 0) # (out.tcap # 0)
            /\ (out.tdap # 0) <=> out.plain
            /\ out.plain <=> (transAp.condSpace = 0)
            /\ (out.tcap # 0) <=> (transAp.condSpace # 0)

\* the three were called on a transition with a condition space
C16_Witness ==
    /\ viewsOut # <<>>
    /\ transAp.condSpace # 0
    /\ viewsOut[1].tcap = transAp.this

(***************************************************************************)
(* The graph: FsmAp, its states, their out lists and in lists.             *)
(* A pointer is the number of the object it points to, 0 the null pointer. *)
(* The bodies of the attach and detach operations are not in fsmgraph.h,   *)
(* which declares them; they follow the description of the graph.          *)
(***************************************************************************)
StateIds == 1 .. MaxGraphOps

TransIds == 1 .. MaxGraphOps

CondIds == 1 .. MaxGraphOps

GraphKeys == 0 .. MaxGraphKey

\* the cond keys of a space of one condition
GraphCondKeys == {0, 1}

\* the state bit of a final state
STB_ISFINAL == 4

\* the state bit of a state that a marking walk has reached
STB_ISMARKED == 8

\* StateAp::StateAp(): empty lists, no bits
StateAp == [outList |-> <<>>, inTrans |-> 0, inCond |-> 0, stateBits |-> 0]

\* a TransAp that is not allocated
NoTransAp ==
    [lowKey |-> 0, highKey |-> 0, condSpace |-> 0, condList |-> <<>>,
     fromState |-> 0, toState |-> 0, ilnext |-> 0, ilprev |-> 0]

\* a CondAp that is not allocated
NoCondAp ==
    [key |-> 0, transAp |-> 0,
     fromState |-> 0, toState |-> 0, ilnext |-> 0, ilprev |-> 0]

\* FsmAp::FsmAp(): no states
FsmAp ==
    [stateList |-> <<>>,
     startState |-> 0,
     finStateSet |-> {},
     states |-> [s \in StateIds |-> StateAp],
     trans |-> [t \in TransIds |-> NoTransAp],
     conds |-> [c \in CondIds |-> NoCondAp]]

SeqRange(seq) == {seq[i] : i \in 1 .. Len(seq)}

SeqRemove(seq, x) == SelectSeq(seq, LAMBDA e : e # x)

OnStateList(g) == SeqRange(g.stateList)

\* the TransAp objects in use: each is in the out list of its owner
LiveTrans(g) == UNION {SeqRange(g.states[s].outList) : s \in StateIds}

\* the CondAp objects in use: each is in the cond list of its TransCondAp
LiveConds(g) == UNION {SeqRange(g.trans[t].condList) : t \in TransIds}

\* operator new: the free object of the lowest address
NewObject(free) == CHOOSE i \in free : \A j \in free : i <= j

\* StateAp::isFinState(), as a mutant tests the wrong bit
isFinState_graph1(state) == (state.stateBits \div 1) % 2 = 1

\* StateAp::isFinState(): stateBits & STB_ISFINAL
isFinState(state) == (state.stateBits \div STB_ISFINAL) % 2 = 1

\* InList::Iter, as a mutant steps it: operator++ follows ilprev
RECURSIVE InList_Iter_prev(_, _, _)
InList_Iter_prev(pool, ptr, fuel) ==
    IF ptr = 0 \/ fuel = 0
    THEN <<>>
    ELSE <<ptr>> \o InList_Iter_prev(pool, pool[ptr].ilprev, fuel - 1)

\* InList::Iter from the head of an in list: the elements that
\* for ( Iter t = list; t.lte(); t++ ) visits, in order; pool holds the
\* elements, and fuel ends a walk that a cycle would keep going
RECURSIVE InList_Iter(_, _, _)
InList_Iter(pool, ptr, fuel) ==
    IF ptr = 0 \/ fuel = 0
    THEN <<>>
    ELSE <<ptr>> \o InList_Iter(pool, pool[ptr].ilnext, fuel - 1)

\* the transitions that a walk of state.inTrans visits
InTransOf(g, s) == InList_Iter(g.trans, g.states[s].inTrans, MaxGraphOps + 1)

\* the conds that a walk of state.inCond visits
InCondOf(g, s) == InList_Iter(g.conds, g.states[s].inCond, MaxGraphOps + 1)

\* attachToInList<Head>: trans becomes the head of the in list of to.
\* head names the list ("inTrans" or "inCond"), pool its elements.
attachToInList(g, to, head, pool, t) ==
    LET h == g.states[to][head]
        g1 == [g EXCEPT ![pool][t].ilnext = h, ![pool][t].ilprev = 0]
        g2 == IF h # 0 THEN [g1 EXCEPT ![pool][h].ilprev = t] ELSE g1
    IN  [g2 EXCEPT !.states[to][head] = t]

\* detachFromInList<Head>: trans leaves the in list of to
detachFromInList(g, to, head, pool, t) ==
    LET n == g[pool][t].ilnext
        p == g[pool][t].ilprev
        g1 == IF p # 0
              THEN [g EXCEPT ![pool][p].ilnext = n]
              ELSE [g EXCEPT !.states[to][head] = n]
        g2 == IF n # 0 THEN [g1 EXCEPT ![pool][n].ilprev = p] ELSE g1
    IN  [g2 EXCEPT ![pool][t].ilnext = 0, ![pool][t].ilprev = 0]

\* FsmAp::addState(): a fresh state at the end of the state list
FsmAp_addState(g) ==
    LET s == NewObject(StateIds \ OnStateList(g))
    IN  [g EXCEPT !.stateList = Append(@, s), !.states[s] = StateAp]

\* FsmAp::attachNewTrans, as a mutant links it: at the head of the out list
FsmAp_attachNewTrans_atHead(g, from, to, lowKey, highKey) ==
    LET t == NewObject(TransIds \ LiveTrans(g))
        g1 == [g EXCEPT
                 !.trans[t] = [NoTransAp EXCEPT !.lowKey = lowKey,
                                                !.highKey = highKey,
                                                !.fromState = from,
                                                !.toState = to],
                 !.states[from].outList = <<t>> \o @]
    IN  attachToInList(g1, to, "inTrans", "trans", t)

\* FsmAp::attachNewTrans( from, to, onChar1, onChar2 ): a new plain
\* transition at the end of the out list of from, attached to to
FsmAp_attachNewTrans(g, from, to, lowKey, highKey) ==
    LET t == NewObject(TransIds \ LiveTrans(g))
        g1 == [g EXCEPT
                 !.trans[t] = [NoTransAp EXCEPT !.lowKey = lowKey,
                                                !.highKey = highKey,
                                                !.fromState = from,
                                                !.toState = to],
                 !.states[from].outList = Append(@, t)]
    IN  attachToInList(g1, to, "inTrans", "trans", t)

\* FsmAp::attachTrans( from, to, TransDataAp *trans ): a transition that is
\* in the out list of from gets its target
FsmAp_attachTrans(g, from, to, t) ==
    attachToInList([g EXCEPT !.trans[t].fromState = from,
                             !.trans[t].toState = to],
                   to, "inTrans", "trans", t)

\* FsmAp::attachTrans( from, to, CondAp *trans )
FsmAp_attachTransCond(g, from, to, c) ==
    attachToInList([g EXCEPT !.conds[c].fromState = from,
                             !.conds[c].toState = to],
                   to, "inCond", "conds", c)

\* FsmAp::detachTrans( from, to, TransDataAp *trans ): the transition
\* loses its target and stays in the out list
FsmAp_detachTrans(g, from, to, t) ==
    detachFromInList([g EXCEPT !.trans[t].fromState = 0,
                               !.trans[t].toState = 0],
                     to, "inTrans", "trans", t)

\* FsmAp::detachTrans( from, to, CondAp *trans )
FsmAp_detachTransCond(g, from, to, c) ==
    detachFromInList([g EXCEPT !.conds[c].fromState = 0,
                               !.conds[c].toState = 0],
                     to, "inCond", "conds", c)

\* FsmAp::attachNewCond( trans, from, to, onChar ): a new CondAp at the end
\* of the cond list of trans, attached to to
FsmAp_attachNewCond(g, t, from, to, onChar) ==
    LET c == NewObject(CondIds \ LiveConds(g))
        g1 == [g EXCEPT
                 !.conds[c] = [NoCondAp EXCEPT !.key = onChar,
                                               !.transAp = t,
                                               !.fromState = from,
                                               !.toState = to],
                 !.trans[t].condList = Append(@, c)]
    IN  attachToInList(g1, to, "inCond", "conds", c)

\* the CondSpace of an empty condSet, which convertToCondAp converts under
EmptyCondSpace == 1

\* FsmAp::convertToCondAp( state, trans ): the plain transition becomes a
\* conditional one with a single cond of key 0 that has its target
FsmAp_convertToCondAp(g, state, t) ==
    LET to == g.trans[t].toState
        c == NewObject(CondIds \ LiveConds(g))
        g1 == IF to # 0 THEN FsmAp_detachTrans(g, state, to, t) ELSE g
        g2 == [g1 EXCEPT
                 !.trans[t].condSpace = EmptyCondSpace,
                 !.trans[t].condList = <<c>>,
                 !.conds[c] = [NoCondAp EXCEPT !.transAp = t]]
    IN  IF to # 0 THEN FsmAp_attachTransCond(g2, state, to, c) ELSE g2

\* the state whose out list holds transition t
OwnerOf(g, t) == CHOOSE s \in StateIds : t \in SeqRange(g.states[s].outList)

\* delete of a transition: it leaves the out list of its owner
DeleteTrans(g, t) ==
    [g EXCEPT !.states[OwnerOf(g, t)].outList = SeqRemove(@, t),
              !.trans[t] = NoTransAp]

\* delete of a cond: it leaves its cond list, and a TransCondAp left
\* without conds is deleted with it
DeleteCond(g, c) ==
    LET t == g.conds[c].transAp
        g1 == [g EXCEPT !.trans[t].condList = SeqRemove(@, c),
                        !.conds[c] = NoCondAp]
    IN  IF g1.trans[t].condList = <<>> THEN DeleteTrans(g1, t) ELSE g1

\* detachState, first loop: while ( state->inTrans.head != 0 )
RECURSIVE DetachInTrans(_, _, _)
DetachInTrans(g, state, fuel) ==
    LET t == g.states[state].inTrans
    IN  IF t = 0 \/ fuel = 0
        THEN g
        ELSE DetachInTrans(
                 DeleteTrans(FsmAp_detachTrans(g, g.trans[t].fromState,
                                               state, t), t),
                 state, fuel - 1)

\* detachState, second loop: while ( state->inCond.head != 0 )
RECURSIVE DetachInCond(_, _, _)
DetachInCond(g, state, fuel) ==
    LET c == g.states[state].inCond
    IN  IF c = 0 \/ fuel = 0
        THEN g
        ELSE DetachInCond(
                 DeleteCond(FsmAp_detachTransCond(g, g.conds[c].fromState,
                                                  state, c), c),
                 state, fuel - 1)

\* detachState, the conds of an out transition: each is detached from its
\* target and deleted
RECURSIVE DetachOutConds(_, _, _)
DetachOutConds(g, state, t) ==
    IF t = 0 \/ g.trans[t].condList = <<>>
    THEN g
    ELSE LET c == Head(g.trans[t].condList)
             to == g.conds[c].toState
             g1 == IF to # 0
                   THEN FsmAp_detachTransCond(g, state, to, c)
                   ELSE g
             g2 == [g1 EXCEPT !.trans[t].condList = Tail(@),
                              !.conds[c] = NoCondAp]
         IN  DetachOutConds(g2, state, t)

\* detachState, third loop: the out transitions are detached from their
\* targets and deleted with the out list
RECURSIVE DetachOut(_, _)
DetachOut(g, state) ==
    IF g.states[state].outList = <<>>
    THEN g
    ELSE LET t == Head(g.states[state].outList)
             to == g.trans[t].toState
             g1 == IF to # 0 THEN FsmAp_detachTrans(g, state, to, t) ELSE g
             g2 == DetachOutConds(g1, state, t)
         IN  DetachOut([g2 EXCEPT !.states[state].outList = Tail(@),
                                  !.trans[t] = NoTransAp],
                       state)

\* FsmAp::detachState( state ) and the removal of the state that follows
\* it: the state leaves the in lists, the final state set and the state list
FsmAp_detachState(g, state) ==
    LET g1 == DetachInTrans(g, state, MaxGraphOps)
        g2 == DetachInCond(g1, state, MaxGraphOps)
        g3 == DetachOut(g2, state)
    IN  [g3 EXCEPT !.finStateSet = @ \ {state},
                   !.stateList = SeqRemove(@, state),
                   !.states[state] = StateAp]

\* FsmAp::setFinState( state ): the bit and the final state set
FsmAp_setFinState(g, state) ==
    IF isFinState(g.states[state])
    THEN g
    ELSE [g EXCEPT !.states[state].stateBits = @ + STB_ISFINAL,
                   !.finStateSet = @ \cup {state}]

\* FsmAp::unsetFinState( state )
FsmAp_unsetFinState(g, state) ==
    IF ~isFinState(g.states[state])
    THEN g
    ELSE [g EXCEPT !.states[state].stateBits = @ - STB_ISFINAL,
                   !.finStateSet = @ \ {state}]

\* FsmAp::unsetAllFinStates(): every member of finStateSet loses the bit
FsmAp_unsetAllFinStates(g) ==
    [g EXCEPT !.states = [s \in StateIds |->
                            IF s \in g.finStateSet
                            THEN [g.states[s] EXCEPT
                                    !.stateBits = @ - STB_ISFINAL]
                            ELSE g.states[s]],
              !.finStateSet = {}]

\* the last transition of the out list of a state lies below lowKey
ExtendsInOrder(g, from, lowKey) ==
    LET out == g.states[from].outList
    IN  out = <<>> \/ g.trans[out[Len(out)]].highKey < lowKey

addState ==
    /\ fsmOps.calls < MaxGraphOps
    /\ StateIds \ OnStateList(fsm) # {}
    /\ fsm' = FsmAp_addState(fsm)
    /\ fsmOps' = [fsmOps EXCEPT !.calls = @ + 1]
    /\ UNCHANGED exceptGraph

attachNewTrans ==
    /\ fsmOps.calls < MaxGraphOps
    /\ TransIds \ LiveTrans(fsm) # {}
    /\ \E from \in OnStateList(fsm), to \in OnStateList(fsm),
          lowKey \in GraphKeys, highKey \in GraphKeys :
          /\ lowKey <= highKey
          /\ fsm' = FsmAp_attachNewTrans(fsm, from, to, lowKey, highKey)
          /\ fsmOps' = [inOrder |-> fsmOps.inOrder
                                    /\ ExtendsInOrder(fsm, from, lowKey),
                        calls |-> fsmOps.calls + 1]
    /\ UNCHANGED exceptGraph

attachTrans ==
    /\ fsmOps.calls < MaxGraphOps
    /\ \E from \in OnStateList(fsm), to \in OnStateList(fsm) :
          \E t \in SeqRange(fsm.states[from].outList) :
              /\ TransAp_plain(fsm.trans[t])
              /\ fsm.trans[t].toState = 0
              /\ fsm' = FsmAp_attachTrans(fsm, from, to, t)
    /\ fsmOps' = [fsmOps EXCEPT !.calls = @ + 1]
    /\ UNCHANGED exceptGraph

detachTrans ==
    /\ fsmOps.calls < MaxGraphOps
    /\ \E t \in LiveTrans(fsm) :
          /\ TransAp_plain(fsm.trans[t])
          /\ fsm.trans[t].toState # 0
          /\ fsm' = FsmAp_detachTrans(fsm, fsm.trans[t].fromState,
                                      fsm.trans[t].toState, t)
    /\ fsmOps' = [fsmOps EXCEPT !.calls = @ + 1]
    /\ UNCHANGED exceptGraph

convertToCondAp ==
    /\ fsmOps.calls < MaxGraphOps
    /\ CondIds \ LiveConds(fsm) # {}
    /\ \E state \in OnStateList(fsm) :
          \E t \in SeqRange(fsm.states[state].outList) :
              /\ TransAp_plain(fsm.trans[t])
              /\ fsm' = FsmAp_convertToCondAp(fsm, state, t)
    /\ fsmOps' = [fsmOps EXCEPT !.calls = @ + 1]
    /\ UNCHANGED exceptGraph

attachNewCond ==
    /\ fsmOps.calls < MaxGraphOps
    /\ CondIds \ LiveConds(fsm) # {}
    /\ \E from \in OnStateList(fsm), to \in OnStateList(fsm),
          onChar \in GraphCondKeys :
          \E t \in SeqRange(fsm.states[from].outList) :
              /\ ~TransAp_plain(fsm.trans[t])
              /\ fsm' = FsmAp_attachNewCond(fsm, t, from, to, onChar)
    /\ fsmOps' = [fsmOps EXCEPT !.calls = @ + 1]
    /\ UNCHANGED exceptGraph

attachTransCond ==
    /\ fsmOps.calls < MaxGraphOps
    /\ \E from \in OnStateList(fsm), to \in OnStateList(fsm) :
          \E t \in SeqRange(fsm.states[from].outList) :
              \E c \in SeqRange(fsm.trans[t].condList) :
                  /\ fsm.conds[c].toState = 0
                  /\ fsm' = FsmAp_attachTransCond(fsm, from, to, c)
    /\ fsmOps' = [fsmOps EXCEPT !.calls = @ + 1]
    /\ UNCHANGED exceptGraph

detachTransCond ==
    /\ fsmOps.calls < MaxGraphOps
    /\ \E c \in LiveConds(fsm) :
          /\ fsm.conds[c].toState # 0
          /\ fsm' = FsmAp_detachTransCond(fsm, fsm.conds[c].fromState,
                                          fsm.conds[c].toState, c)
    /\ fsmOps' = [fsmOps EXCEPT !.calls = @ + 1]
    /\ UNCHANGED exceptGraph

detachState ==
    /\ fsmOps.calls < MaxGraphOps
    /\ \E state \in OnStateList(fsm) :
          fsm' = FsmAp_detachState(fsm, state)
    /\ fsmOps' = [fsmOps EXCEPT !.calls = @ + 1]
    /\ UNCHANGED exceptGraph

setFinState ==
    /\ fsmOps.calls < MaxGraphOps
    /\ \E state \in OnStateList(fsm) :
          /\ ~isFinState(fsm.states[state])
          /\ fsm' = FsmAp_setFinState(fsm, state)
    /\ fsmOps' = [fsmOps EXCEPT !.calls = @ + 1]
    /\ UNCHANGED exceptGraph

unsetFinState ==
    /\ fsmOps.calls < MaxGraphOps
    /\ \E state \in OnStateList(fsm) :
          /\ isFinState(fsm.states[state])
          /\ fsm' = FsmAp_unsetFinState(fsm, state)
    /\ fsmOps' = [fsmOps EXCEPT !.calls = @ + 1]
    /\ UNCHANGED exceptGraph

unsetAllFinStates ==
    /\ fsmOps.calls < MaxGraphOps
    /\ fsm.finStateSet # {}
    /\ fsm' = FsmAp_unsetAllFinStates(fsm)
    /\ fsmOps' = [fsmOps EXCEPT !.calls = @ + 1]
    /\ UNCHANGED exceptGraph

GraphInit ==
    /\ ItersIdle
    /\ LaterIdle
    /\ ActionIdle
    /\ PriorsIdle
    /\ TransIdle
    /\ CondIdle
    /\ TransApIdle
    /\ FillIdle
    /\ fsm = FsmAp
    /\ fsmOps = [inOrder |-> TRUE, calls |-> 0]

GraphNext ==
    \/ addState
    \/ attachNewTrans
    \/ attachTrans
    \/ detachTrans
    \/ convertToCondAp
    \/ attachNewCond
    \/ attachTransCond
    \/ detachTransCond
    \/ detachState

GraphSpec == GraphInit /\ [][GraphNext]_vars

\* the operations on final states, on a graph of plain transitions
FinNext ==
    \/ addState
    \/ attachNewTrans
    \/ detachState
    \/ setFinState
    \/ unsetFinState
    \/ unsetAllFinStates

FinSpec == GraphInit /\ [][FinNext]_vars

(***************************************************************************)
(* Claims about the graph.                                                 *)
(***************************************************************************)
\* the out list of a state as the list of key ranges that RangePairIter walks
OutRanges(g, s) ==
    [i \in 1 .. Len(g.states[s].outList) |->
        [lowKey |-> g.trans[g.states[s].outList[i]].lowKey,
         highKey |-> g.trans[g.states[s].outList[i]].highKey]]

OutListsValid ==
    \A s \in OnStateList(fsm) :
        LET ranges == OutRanges(fsm, s)
        IN  /\ SortedDisjoint(isSigned, ranges)
            /\ \A i \in 1 .. Len(ranges) :
                  ~lt(ranges[i].highKey, ranges[i].lowKey)

NoRevisit(walk) == Cardinality(SeqRange(walk)) = Len(walk)

\* C18: after any sequence of attachNewTrans, attachNewCond, attachTrans,
\* detachTrans and detachState operations a walk of the inTrans list of a state
\* visits exactly the plain transitions whose target is the state, and a walk
\* of its inCond list exactly the CondAps whose target is the state, each of
\* them once; a detached one, which has no target, is in no in list
C18_InListsExact ==
    \A u \in StateIds :
        LET inTrans == InTransOf(fsm, u)
            inCond == InCondOf(fsm, u)
        IN  /\ NoRevisit(inTrans)
            /\ SeqRange(inTrans) = {t \in TransIds : fsm.trans[t].toState = u}
            /\ NoRevisit(inCond)
            /\ SeqRange(inCond) = {c \in CondIds : fsm.conds[c].toState = u}

\* a state with two transitions in its inTrans list, and a transition that was
\* detached from its target
C18_Witness ==
    /\ \E u \in OnStateList(fsm) : Len(InTransOf(fsm, u)) >= 2
    /\ \E t \in LiveTrans(fsm) :
          TransAp_plain(fsm.trans[t]) /\ fsm.trans[t].toState = 0

\* C19: after any sequence of setFinState, unsetFinState, unsetAllFinStates
\* and state removals a state is a member of finStateSet iff isFinState()
\* is true of it, and only states of the state list are members
C19_FinalIffInSet ==
    /\ fsm.finStateSet \subseteq OnStateList(fsm)
    /\ \A s \in OnStateList(fsm) :
          s \in fsm.finStateSet <=> isFinState(fsm.states[s])

\* the first state was removed, and of the states that remain one is final
\* and another is not
C19_Witness ==
    /\ 1 \notin OnStateList(fsm)
    /\ \E s \in OnStateList(fsm) : isFinState(fsm.states[s])
    /\ \E s \in OnStateList(fsm) : s \notin fsm.finStateSet

(***************************************************************************)
(* Subset construction under the state limit of the context. The body of   *)
(* fillInStates is not in fsmgraph.h, which declares it; it follows the    *)
(* description of subset construction: each combined state that awaits     *)
(* filling in is taken in turn, filling it in allocates the combined       *)
(* states of its targets that the dictionary does not hold yet, and the    *)
(* total number of states is held against ctx->stateLimit.                 *)
(***************************************************************************)
\* FsmCtx::FsmCtx, as a mutant constructs it: with a limit of one state
FsmCtx_limitOne == [stateLimit |-> 1]

\* FsmCtx::FsmCtx: stateLimit(-1), no limit
FsmCtx == [stateLimit |-> -1]

StateLimits == -1 .. MaxStateLimit

\* the limit is in force and the total number of states exceeds it
OverStateLimit(c, numStates) == c.stateLimit > 0 /\ numStates > c.stateLimit

\* ctx->stateLimit = limit, by the owner of the context before it builds
assignStateLimit ==
    /\ fillIn.pc = "ready"
    /\ \E limit \in StateLimits :
          /\ limit # ctx.stateLimit
          /\ ctx' = [ctx EXCEPT !.stateLimit = limit]
    /\ fillIn' = [fillIn EXCEPT !.defaultCtx = FALSE]
    /\ UNCHANGED exceptFill

\* FsmAp::fillInStates, one combined state: it leaves the fill list, the
\* new combined states of its targets are allocated and join the fill list,
\* and the run aborts with TooManyStates if the total is over the limit
fillInStates ==
    /\ fillIn.pc \in {"ready", "filling"}
    /\ \E new \in 0 .. MaxNewStates :
          LET numStates == fillIn.numStates + new
              stFil == fillIn.stFil - 1 + new
          IN  /\ numStates <= MaxFillStates
              /\ fillIn' = [fillIn EXCEPT
                              !.numStates = numStates,
                              !.stFil = stFil,
                              !.pc = IF OverStateLimit(ctx, numStates)
                                     THEN "TooManyStates"
                                     ELSE IF stFil = 0 THEN "done"
                                     ELSE "filling"]
    /\ UNCHANGED <<ctx, exceptFill>>

FillInit ==
    /\ ItersIdle
    /\ LaterIdle
    /\ ActionIdle
    /\ PriorsIdle
    /\ TransIdle
    /\ CondIdle
    /\ TransApIdle
    /\ GraphIdle
    /\ ctx = FsmCtx
    /\ \E numStates \in 1 .. MaxFillStates :
          fillIn = [pc |-> "ready", numStates |-> numStates, stFil |-> 1,
                    defaultCtx |-> TRUE]

FillNext ==
    \/ assignStateLimit
    \/ fillInStates

FillSpec == FillInit /\ [][FillNext]_vars

KeptOver(el, old) ==
    \/ el = old
    \/ el.desc.priority > old.desc.priority
    \/ /\ el.desc.priority = old.desc.priority
       /\ el.ordering >= old.ordering

PriorInteraction_noId(id) == [thrown |-> "PriorInteraction", id |-> 0]

\* struct PriorInteraction: PriorInteraction( int id ) : id(id)
PriorInteraction(id) == [thrown |-> "PriorInteraction", id |-> id]

\* the pairs of elements, one of each table, that are on one key
OnOneKey(priorTable1, priorTable2) ==
    {pair \in SeqRange(priorTable1) \X SeqRange(priorTable2) :
        pair[1].desc.key = pair[2].desc.key}

\* the keys on which the two tables hold the same priority under different
\* orderings: the priorities that the merge cannot resolve
Unresolvable(priorTable1, priorTable2) ==
    {pair[1].desc.key :
        pair \in {p \in OnOneKey(priorTable1, priorTable2) :
                    /\ p[1].desc.priority = p[2].desc.priority
                    /\ p[1].ordering # p[2].ordering}}

\* the pairs on one key that differ in priority
Differing(priorTable1, priorTable2) ==
    {p \in OnOneKey(priorTable1, priorTable2) :
        p[1].desc.priority # p[2].desc.priority}

LeastKey(keys) == CHOOSE key \in keys : \A other \in keys : key <= other

\* FsmAp::comparePrior( priorTable1, priorTable2 ): throws PriorInteraction
\* on the first key of an unresolvable priority, and else returns -1, 0 or 1
\* as the first differing priority decides
comparePrior(priorTable1, priorTable2) ==
    LET unresolvable == Unresolvable(priorTable1, priorTable2)
        differing == Differing(priorTable1, priorTable2)
    IN  IF unresolvable # {}
        THEN PriorInteraction(LeastKey(unresolvable))
        ELSE IF differing = {}
        THEN [returned |-> 0]
        ELSE LET first == CHOOSE p \in differing :
                              \A q \in differing : p[1].desc.key <= q[1].desc.key
             IN  IF first[1].desc.priority < first[2].desc.priority
                 THEN [returned |-> -1]
                 ELSE [returned |-> 1]

\* the merge of two transitions compares their priority tables; what
\* comparePrior throws leaves the operator and is the outcome of the call
callComparePrior ==
    /\ priorCmp.outcome = "none"
    /\ \E priorTable2 \in PriorTables :
          LET result == comparePrior(priorCmp.priorTable1, priorTable2)
          IN  priorCmp' = [priorCmp EXCEPT
                             !.priorTable2 = priorTable2,
                             !.outcome = IF "thrown" \in DOMAIN result
                                         THEN "thrown" ELSE "returned",
                             !.result = result]
    /\ UNCHANGED <<condData, exceptMerge>>

PriorCmpInit ==
    /\ ItersIdle
    /\ EarlierIdle
    /\ InputIdle
    /\ condData = [condSpaceMap |-> <<>>]
    /\ \E priorTable1 \in PriorTables :
          priorCmp = [priorTable1 |-> priorTable1, priorTable2 |-> <<>>,
                      outcome |-> "none", result |-> [returned |-> 0]]

PriorCmpNext == callComparePrior

PriorCmpSpec == PriorCmpInit /\ [][PriorCmpNext]_vars

CondActions == 1 .. MaxCondActions

\* Action::condId as the constructor was given it: two actions share each
\* condId but the first
Action_condId(cond) == cond \div 2

\* CmpCondId::compare, as a mutant compares: the pointers
CmpCondId_byPointer(cond1, cond2) ==
    IF cond1 < cond2 THEN -1
    ELSE IF cond1 > cond2 THEN 1
    ELSE 0

\* CmpCondId::compare( cond1, cond2 )
CmpCondId_compare(cond1, cond2) ==
    IF Action_condId(cond1) < Action_condId(cond2) THEN -1
    ELSE IF Action_condId(cond1) > Action_condId(cond2) THEN 1
    ELSE 0

\* CondSet, a BstSet under CmpCondId: the actions in the order of CmpCondId,
\* no two of which compare equal
CondSets ==
    {set \in UNION {[1 .. n -> CondActions] : n \in 0 .. MaxCondActions} :
        \A i \in 1 .. (Len(set) - 1) :
            Action_condId(set[i]) < Action_condId(set[i + 1])}

\* CmpCondSet, a CmpTable under CmpCondId: by length, then element by element
RECURSIVE CmpCondSet_elements(_, _)
CmpCondSet_elements(set1, set2) ==
    IF set1 = <<>> THEN 0
    ELSE IF CmpCondId_compare(Head(set1), Head(set2)) # 0
    THEN CmpCondId_compare(Head(set1), Head(set2))
    ELSE CmpCondSet_elements(Tail(set1), Tail(set2))

CmpCondSet_compare(set1, set2) ==
    IF Len(set1) < Len(set2) THEN -1
    ELSE IF Len(set1) > Len(set2) THEN 1
    ELSE CmpCondSet_elements(set1, set2)

\* CondSpaceMap::find( condSet ): the index of the space of the set, or 0
CondSpaceMap_find(map, condSet) ==
    LET hits == {i \in 1 .. Len(map) :
                    CmpCondSet_compare(map[i].condSet, condSet) = 0}
    IN  IF hits = {} THEN 0 ELSE CHOOSE i \in hits : TRUE

\* FsmAp::addCondSpace( condSet ): the space of the set that the map holds,
\* or a new space with a fresh id that the map takes in. The map and the
\* space that is returned.
addCondSpace(map, condSet) ==
    LET found == CondSpaceMap_find(map, condSet)
        condSpaceNew == [condSet |-> condSet, condSpaceId |-> Len(map)]
    IN  IF found # 0
        THEN [map |-> map, returned |-> map[found]]
        ELSE [map |-> Append(map, condSpaceNew), returned |-> condSpaceNew]

callAddCondSpace ==
    /\ Len(condData.calls) < MaxAddCalls
    /\ \E condSet \in CondSets :
          LET call == addCondSpace(condData.condSpaceMap, condSet)
          IN  condData' = [condSpaceMap |-> call.map,
                           calls |-> Append(condData.calls,
                                            [condSet |-> condSet,
                                             returned |-> call.returned])]
    /\ UNCHANGED <<priorCmp, exceptMerge>>

CondMapInit ==
    /\ ItersIdle
    /\ EarlierIdle
    /\ InputIdle
    /\ priorCmp = [outcome |-> "none"]
    /\ condData = [condSpaceMap |-> <<>>, calls |-> <<>>]

CondMapNext == callAddCondSpace

CondMapSpec == CondMapInit /\ [][CondMapNext]_vars

\* the condIds that a condition set holds
CondIdsOf(condSet) == {Action_condId(condSet[i]) : i \in 1 .. Len(condSet)}

\* C23: two addCondSpace calls with condition sets that hold the same condIds
\* return the same CondSpace, with the same condSpaceId, and calls with sets
\* of different condIds return spaces of different ids; a call adds at most
\* one entry to the map, and no step removes or changes an entry
C23_AddCondSpaceInterns ==
    /\ [](\A i, j \in 1 .. Len(condData.calls) :
            LET call1 == condData.calls[i]
                call2 == condData.calls[j]
            IN  IF CondIdsOf(call1.condSet) = CondIdsOf(call2.condSet)
                THEN call1.returned = call2.returned
                ELSE call1.returned.condSpaceId # call2.returned.condSpaceId)
    /\ [][/\ Len(condData'.condSpaceMap) <= Len(condData.condSpaceMap) + 1
          /\ SubSeq(condData'.condSpaceMap, 1, Len(condData.condSpaceMap))
                = condData.condSpaceMap]_vars

\* two calls with sets of different actions of the same condIds, for which
\* the map holds one space, and a third call that added another
C23_Witness ==
    /\ Len(condData.calls) = 3
    /\ condData.calls[1].condSet # condData.calls[2].condSet
    /\ CondIdsOf(condData.calls[1].condSet)
           = CondIdsOf(condData.calls[2].condSet)
    /\ Len(condData.condSpaceMap) = 2

(***************************************************************************)
(* Path pruning. The bodies of markReachableFromHere and                   *)
(* removeUnreachableStates are not in fsmgraph.h, which declares them;     *)
(* they follow the description of the reachability passes.                 *)
(***************************************************************************)
isMarked(state) == (state.stateBits \div STB_ISMARKED) % 2 = 1

\* the states that the out transitions of a state lead to: the target of each
\* plain transition and of each cond of each conditional one
TargetsOf(g, s) ==
    {g.trans[t].toState : t \in SeqRange(g.states[s].outList)}
        \cup UNION {{g.conds[c].toState : c \in SeqRange(g.trans[t].condList)} :
                        t \in SeqRange(g.states[s].outList)}

\* FsmAp::markReachableFromHere, as a mutant marks: the states that the
\* transitions lead to, and the state itself only if one leads back to it
RECURSIVE markReachableFromHere_targetsOnly(_, _)
markReachableFromHere_targetsOnly(g, state) ==
    LET least(set) == CHOOSE s \in set : \A o \in set : s <= o
        unmarked(h) == {s \in TargetsOf(g, state) \ {0} : ~isMarked(h.states[s])}
        mark(h, s) ==
            [h EXCEPT !.states[s].stateBits = @ + STB_ISMARKED]
    IN  IF unmarked(g) = {}
        THEN g
        ELSE markReachableFromHere_targetsOnly(
                 mark(g, least(unmarked(g))), state)

\* FsmAp::markReachableFromHere( state ): the state is marked, and the walk
\* goes on from each state that one of its out transitions leads to, until
\* it meets marked states only
RECURSIVE markReachableFromHere(_, _)
RECURSIVE MarkTargets(_, _)
markReachableFromHere(g, state) ==
    IF isMarked(g.states[state])
    THEN g
    ELSE MarkTargets([g EXCEPT !.states[state].stateBits = @ + STB_ISMARKED],
                     TargetsOf(g, state) \ {0})

MarkTargets(g, targets) ==
    IF targets = {}
    THEN g
    ELSE LET to == CHOOSE s \in targets : \A o \in targets : s <= o
         IN  MarkTargets(markReachableFromHere(g, to), targets \ {to})

\* removeUnreachableStates, the loop over the state list: a marked state loses
\* its mark, a state without one is detached from the graph and deleted
RECURSIVE RemoveUnmarked(_, _)
RemoveUnmarked(g, list) ==
    IF list = <<>>
    THEN g
    ELSE LET state == Head(list)
         IN  RemoveUnmarked(
                 IF isMarked(g.states[state])
                 THEN [g EXCEPT !.states[state].stateBits = @ - STB_ISMARKED]
                 ELSE FsmAp_detachState(g, state),
                 Tail(list))

\* FsmAp::removeUnreachableStates()
FsmAp_removeUnreachableStates(g) ==
    RemoveUnmarked(markReachableFromHere(g, g.startState), g.stateList)

\* FsmAp::setStartState( state )
setStartState ==
    /\ fsmOps.calls < MaxGraphOps
    /\ fsm.startState = 0
    /\ \E state \in OnStateList(fsm) :
          fsm' = [fsm EXCEPT !.startState = state]
    /\ fsmOps' = [fsmOps EXCEPT !.calls = @ + 1]
    /\ UNCHANGED exceptGraph

removeUnreachableStates ==
    /\ fsmOps.calls < MaxGraphOps
    /\ fsm.startState # 0
    /\ fsm' = FsmAp_removeUnreachableStates(fsm)
    /\ fsmOps' = [fsmOps EXCEPT !.calls = @ + 1]
    /\ UNCHANGED exceptGraph

\* the building of a graph from a start state, and its pruning
ReachNext ==
    \/ addState
    \/ attachNewTrans
    \/ detachTrans
    \/ convertToCondAp
    \/ setStartState
    \/ removeUnreachableStates

ReachSpec == GraphInit /\ [][ReachNext]_vars

\* the states that paths of out transitions from a set of states lead to,
\* the set itself among them
RECURSIVE ReachableFrom(_, _)
ReachableFrom(g, from) ==
    LET next == from \cup (UNION {TargetsOf(g, s) : s \in from} \ {0})
    IN  IF next = from THEN from ELSE ReachableFrom(g, next)

\* C24: when removeUnreachableStates has completed, every state on the state
\* list is reachable from startState by out transitions, and every state that
\* was reachable before the call is still on the state list
C24_OnlyUnreachableRemoved ==
    [][removeUnreachableStates =>
          /\ OnStateList(fsm') \subseteq ReachableFrom(fsm', {fsm'.startState})
          /\ ReachableFrom(fsm, {fsm.startState}) \subseteq OnStateList(fsm')
          /\ fsm'.startState = fsm.startState]_vars

\* the first state was not reachable from the start state and was removed;
\* a transition is in the graph that is left
C24_Witness ==
    /\ fsm.startState # 0
    /\ 1 \notin OnStateList(fsm)
    /\ LiveTrans(fsm) # {}

(***************************************************************************)
(* The sequenced input of the runtime (input.c): an input_impl_seq holds a *)
(* queue of seq_buf and a stash of the buffers consumed from its head.     *)
(* A seq_buf is a token or ignore tree, or a stream of bytes. The streams  *)
(* themselves (stream_impl_data) are not in input.c, which calls them; a   *)
(* stream is the number of bytes it still holds and the number consumed    *)
(* from it.                                                                *)
(***************************************************************************)
\* the most counted operations on one input
MaxInputOps == 4

\* the most bytes in one piece of data, and in a stream that is attached
MaxData == 1

\* tree_t::id, the language element of a tree
LangElIds == {1, 2}

\* tree_t *tree of a seq_buf that is not a tree (memset in new_seq_buf)
NoTree == [ptr |-> 0, id |-> 0]

\* the lengths a caller asks to consume
ConsumeLengths == 1..(MaxData + 1)

is_tree(b) == b.type = "SB_TOKEN" \/ b.type = "SB_IGNORE"

\* is_stream, as a mutant has it: an ignore counts as a stream
is_stream_or_ignore(b) == b.type # "SB_TOKEN"

is_stream(b) == b.type = "SB_SOURCE" \/ b.type = "SB_ACCUM"

\* new_seq_buf(), then the fields that the caller sets; ptr is the address
new_seq_buf(ptr, type, tree, avail, consumed) ==
    [ptr |-> ptr, type |-> type, tree |-> tree,
     avail |-> avail, consumed |-> consumed, eof |-> FALSE]

\* init_input_impl_seq( is, name )
init_input_impl_seq ==
    [queue |-> <<>>, stash |-> <<>>, line |-> 1, column |-> 1, byte |-> 0,
     eof_mark |-> FALSE, allocs |-> 0]

\* sub->funcs->consume_data( prg, sub, length, loc ): the bytes consumed, the
\* length asked for or what the stream holds
data_consume_data(sub, length) ==
    IF sub.avail <= length THEN sub.avail ELSE length

\* sub->funcs->undo_consume_data( prg, sub, data, remaining ): the bytes
\* pushed back, at most what was consumed from the stream
data_undo_consume_data(sub, remaining) ==
    IF remaining > sub.consumed THEN sub.consumed ELSE remaining

\* si->funcs->get_parse_block( ... ) of a stream: data while it holds some,
\* then the end of the data, or the end of the file once the stream is at it
data_get_parse_block(sub) ==
    IF sub.avail > 0 THEN "INPUT_DATA"
    ELSE IF sub.eof THEN "INPUT_EOF"
    ELSE "INPUT_EOD"

\* input_stream_stash_head, as a mutant has it: under the rest of the stash
input_stream_stash_head_bottom(is, seq_buf) ==
    [is EXCEPT !.stash = Append(@, seq_buf)]

\* input_stream_stash_head( prg, si, seq_buf )
input_stream_stash_head(is, seq_buf) ==
    [is EXCEPT !.stash = <<seq_buf>> \o @]

\* input_stream_pop_stash( prg, si ), on a stash that is not empty
input_stream_pop_stash(is) ==
    [is |-> [is EXCEPT !.stash = Tail(@)], returned |-> Head(is.stash)]

\* input_stream_seq_pop_head( is ), on a queue that is not empty
input_stream_seq_pop_head(is) ==
    [is |-> [is EXCEPT !.queue = Tail(@)], returned |-> Head(is.queue)]

\* input_stream_seq_append( is, seq_buf )
input_stream_seq_append(is, seq_buf) ==
    [is EXCEPT !.queue = Append(@, seq_buf)]

\* input_stream_seq_prepend, as a mutant has it: at the tail of the queue
input_stream_seq_prepend_tail(is, seq_buf) ==
    [is EXCEPT !.queue = Append(@, seq_buf)]

\* input_stream_seq_prepend( is, seq_buf )
input_stream_seq_prepend(is, seq_buf) ==
    [is EXCEPT !.queue = <<seq_buf>> \o @]

\* the head of the queue goes to the top of the stash
StashQueueHead(is) ==
    LET popped == input_stream_seq_pop_head(is)
    IN  input_stream_stash_head(popped.is, popped.returned)

\* maybe_split( prg, si ): the bytes consumed from a stream at the head of
\* the queue become a stream of their own on the stash
maybe_split(is) ==
    IF is.queue # <<>> /\ is_stream(Head(is.queue))
            /\ Head(is.queue).consumed > 0
    THEN LET new_buf == new_seq_buf(is.allocs + 1, "SB_ACCUM", NoTree,
                                    0, Head(is.queue).consumed)
         IN  input_stream_stash_head(
                 [is EXCEPT !.queue[1].consumed = 0, !.allocs = @ + 1],
                 new_buf)
    ELSE is

\* input_get_parse_block: the walk over the buffers from buf on
RECURSIVE get_parse_block_from(_, _)
get_parse_block_from(is, buf) ==
    IF buf > Len(is.queue)
    THEN [returned |-> IF is.eof_mark THEN "INPUT_EOF" ELSE "INPUT_EOD",
          buf |-> 0]
    ELSE IF is_stream(is.queue[buf])
         THEN LET type == data_get_parse_block(is.queue[buf])
              IN  IF type = "INPUT_EOD" \/ type = "INPUT_EOF"
                  THEN get_parse_block_from(is, buf + 1)
                  ELSE [returned |-> type, buf |-> buf]
         ELSE IF is.queue[buf].type = "SB_TOKEN"
              THEN [returned |-> "INPUT_TREE", buf |-> buf]
              ELSE [returned |-> "INPUT_IGNORE", buf |-> buf]

\* input_get_parse_block, as a mutant has it: eof_mark is not read
input_get_parse_block_noMark(is) ==
    LET block == get_parse_block_from(is, 1)
    IN  IF block.returned = "INPUT_EOF"
        THEN [block EXCEPT !.returned = "INPUT_EOD"]
        ELSE block

\* input_get_parse_block( prg, is, pskip, pdp, copied ): the type of the
\* block and the place in the queue of the buffer it is in
input_get_parse_block(is) == get_parse_block_from(is, 1)

\* input_consume_data: the loop, with length bytes still to consume and
\* consumed bytes consumed
RECURSIVE consume_data_loop(_, _, _)
consume_data_loop(is, length, consumed) ==
    IF is.queue = <<>>
    THEN [is |-> is, returned |-> consumed]
    ELSE LET buf == Head(is.queue)
         IN  IF is_stream(buf)
             THEN LET slen == data_consume_data(buf, length)
                      is1 == [is EXCEPT !.queue[1].avail = @ - slen,
                                        !.queue[1].consumed = @ + slen]
                  IN  IF length - slen = 0
                      THEN [is |-> is1, returned |-> consumed + slen]
                      ELSE consume_data_loop(StashQueueHead(is1),
                                             length - slen, consumed + slen)
             ELSE [is |-> is, returned |-> consumed]

\* input_consume_data( prg, si, length, loc ). Every buffer is a stream, a
\* token or an ignore, so the branch that sets loc is not taken.
input_consume_data(is, length) == consume_data_loop(is, length, 0)

\* input_undo_consume_data: the loop, with remaining bytes to push back. It
\* reads the type of the head of the queue and pops the stash without a test
\* of either: a fault is the read of a null pointer.
RECURSIVE undo_consume_data_loop(_, _, _)
undo_consume_data_loop(is, remaining, tot) ==
    IF is.queue = <<>>
    THEN [is |-> is, fault |-> "queue", returned |-> tot - remaining]
    ELSE LET sub == Head(is.queue)
             pushed_back ==
                 IF is_stream(sub)
                 THEN data_undo_consume_data(sub, remaining)
                 ELSE 0
             is1 == [is EXCEPT !.queue[1].avail = @ + pushed_back,
                               !.queue[1].consumed = @ - pushed_back]
         IN  IF is_stream(sub) /\ remaining - pushed_back = 0
             THEN [is |-> is1, fault |-> "none", returned |-> tot]
             ELSE IF is1.stash = <<>>
                  THEN [is |-> is1, fault |-> "stash",
                        returned |-> tot - (remaining - pushed_back)]
                  ELSE LET popped == input_stream_pop_stash(is1)
                       IN  undo_consume_data_loop(
                               input_stream_seq_prepend(popped.is,
                                                        popped.returned),
                               remaining - pushed_back, tot)

\* input_undo_consume_data( prg, si, data, length ): returned is the number
\* of bytes pushed back when the call ended
input_undo_consume_data(is, length) ==
    undo_consume_data_loop(is, length, length)

\* the loop of input_consume_tree, as a mutant has it: nothing is stashed
StashLeadingStreams_none(is) == is

\* input_consume_tree: the loop that stashes the streams at the head
RECURSIVE StashLeadingStreams(_)
StashLeadingStreams(is) ==
    IF is.queue # <<>> /\ is_stream(Head(is.queue))
    THEN StashLeadingStreams(StashQueueHead(is))
    ELSE is

\* input_consume_tree( prg, si ): a fault is the assertion failing
input_consume_tree(is) ==
    LET is1 == StashLeadingStreams(is)
    IN  IF is1.queue # <<>> /\ is_tree(Head(is1.queue))
        THEN [is |-> StashQueueHead(is1), fault |-> "none",
              returned |-> Head(is1.queue).tree]
        ELSE [is |-> is1, fault |-> "assert", returned |-> NoTree]

\* input_undo_consume_tree( prg, si, tree, ignore ): a fault is the pop of an
\* empty stash or the assertion on the ids failing
RECURSIVE input_undo_consume_tree(_, _)
input_undo_consume_tree(is, tree) ==
    IF is.stash = <<>>
    THEN [is |-> is, fault |-> "stash"]
    ELSE LET popped == input_stream_pop_stash(is)
             b == popped.returned
             is1 == input_stream_seq_prepend(popped.is, b)
         IN  IF is_tree(b)
             THEN [is |-> is1,
                   fault |-> IF b.tree.id = tree.id THEN "none" ELSE "assert"]
             ELSE input_undo_consume_tree(is1, tree)

\* input_prepend_data( prg, si, data, length )
input_prepend_data(is, length) ==
    LET is1 == maybe_split(is)
    IN  input_stream_seq_prepend(
            [is1 EXCEPT !.allocs = @ + 1],
            new_seq_buf(is1.allocs + 1, "SB_ACCUM", NoTree, length, 0))

\* input_prepend_tree( prg, si, tree, ignore )
input_prepend_tree(is, id, ignore) ==
    LET is1 == maybe_split(is)
    IN  input_stream_seq_prepend(
            [is1 EXCEPT !.allocs = @ + 1],
            new_seq_buf(is1.allocs + 1,
                        IF ignore THEN "SB_IGNORE" ELSE "SB_TOKEN",
                        [ptr |-> is1.allocs + 1, id |-> id], 0, 0))

\* input_prepend_stream( prg, si, stream ), of a stream that holds avail bytes
input_prepend_stream(is, avail) ==
    LET is1 == maybe_split(is)
    IN  input_stream_seq_prepend(
            [is1 EXCEPT !.allocs = @ + 1],
            new_seq_buf(is1.allocs + 1, "SB_SOURCE", NoTree, avail, 0))

\* input_append_data( prg, si, data, length ), built without OPTIM_APPEND
input_append_data(is, length) ==
    input_stream_seq_append(
        [is EXCEPT !.allocs = @ + 1],
        new_seq_buf(is.allocs + 1, "SB_ACCUM", NoTree, length, 0))

\* input_append_tree( prg, si, tree )
input_append_tree(is, id) ==
    input_stream_seq_append(
        [is EXCEPT !.allocs = @ + 1],
        new_seq_buf(is.allocs + 1, "SB_TOKEN",
                    [ptr |-> is.allocs + 1, id |-> id], 0, 0))

\* input_append_stream( prg, si, stream ), of a stream that holds avail bytes
input_append_stream(is, avail) ==
    input_stream_seq_append(
        [is EXCEPT !.allocs = @ + 1],
        new_seq_buf(is.allocs + 1, "SB_SOURCE", NoTree, avail, 0))

\* the calls that add a buffer to the queue
EditCalls ==
    {"prepend_data", "prepend_tree", "prepend_stream",
     "append_data", "append_tree", "append_stream"}

\* what is kept of a call: its name, its argument, what it returned, how it
\* ended, the name, argument and return of the call before it, and for
\* input_consume_tree, update_position_seq and the calls that add a buffer
\* the input they were called on
NoCall ==
    [call |-> "none", arg |-> 0, returned |-> 0, fault |-> "none",
     before |-> init_input_impl_seq, ops |-> 0,
     prev |-> [call |-> "none", arg |-> 0, returned |-> 0]]

Called(call, arg, returned, fault) ==
    [call |-> call, arg |-> arg, returned |-> returned, fault |-> fault,
     before |-> IF call \in {"consume_tree", "update_position_seq"}
                          \union EditCalls
                THEN input
                ELSE init_input_impl_seq,
     ops |-> inputHist.ops + 1,
     prev |-> [call |-> inputHist.call, arg |-> inputHist.arg,
               returned |-> inputHist.returned]]

\* a call can be made: the program has not faulted
CanCall == inputHist.fault = "none" /\ inputHist.ops < MaxInputOps

append_data ==
    /\ CanCall
    /\ \E length \in 1..MaxData :
          /\ input' = input_append_data(input, length)
          /\ inputHist' = Called("append_data", length, 0, "none")
    /\ UNCHANGED exceptInput

append_tree ==
    /\ CanCall
    /\ \E id \in LangElIds :
          /\ input' = input_append_tree(input, id)
          /\ inputHist' = Called("append_tree", id, 0, "none")
    /\ UNCHANGED exceptInput

append_stream ==
    /\ CanCall
    /\ \E avail \in 0..MaxData :
          /\ input' = input_append_stream(input, avail)
          /\ inputHist' = Called("append_stream", avail, 0, "none")
    /\ UNCHANGED exceptInput

prepend_data ==
    /\ CanCall
    /\ \E length \in 1..MaxData :
          /\ input' = input_prepend_data(input, length)
          /\ inputHist' = Called("prepend_data", length, 0, "none")
    /\ UNCHANGED exceptInput

prepend_tree ==
    /\ CanCall
    /\ \E id \in LangElIds, ignore \in BOOLEAN :
          /\ input' = input_prepend_tree(input, id, ignore)
          /\ inputHist' = Called("prepend_tree", id, 0, "none")
    /\ UNCHANGED exceptInput

prepend_stream ==
    /\ CanCall
    /\ \E avail \in 0..MaxData :
          /\ input' = input_prepend_stream(input, avail)
          /\ inputHist' = Called("prepend_stream", avail, 0, "none")
    /\ UNCHANGED exceptInput

\* input_get_parse_block changes nothing in the input
get_parse_block ==
    /\ CanCall
    /\ inputHist.call # "get_parse_block"
    /\ LET block == input_get_parse_block(input)
       IN  inputHist' = Called("get_parse_block", block.buf,
                               block.returned, "none")
    /\ UNCHANGED <<input, exceptInput>>

consume_data ==
    /\ CanCall
    /\ \E length \in ConsumeLengths :
          LET done == input_consume_data(input, length)
          IN  /\ input' = done.is
              /\ inputHist' = Called("consume_data", length,
                                     done.returned, "none")
    /\ UNCHANGED exceptInput

\* the undo of the consume_data that has just returned, of the bytes it
\* returned (length > 0 is asserted)
undo_consume_data ==
    /\ CanCall
    /\ inputHist.call = "consume_data"
    /\ inputHist.returned > 0
    /\ LET done == input_undo_consume_data(input, inputHist.returned)
       IN  /\ input' = done.is
           /\ inputHist' = Called("undo_consume_data", inputHist.returned,
                                  done.returned, done.fault)
    /\ UNCHANGED exceptInput

consume_tree ==
    /\ CanCall
    /\ LET done == input_consume_tree(input)
       IN  /\ input' = done.is
           /\ inputHist' = Called("consume_tree", 0, done.returned,
                                  done.fault)
    /\ UNCHANGED exceptInput

\* the undo of the consume_tree that has just returned, with its tree
undo_consume_tree ==
    /\ CanCall
    /\ inputHist.call = "consume_tree"
    /\ LET done == input_undo_consume_tree(input, inputHist.returned)
       IN  /\ input' = done.is
           /\ inputHist' = Called("undo_consume_tree", inputHist.returned,
                                  0, done.fault)
    /\ UNCHANGED exceptInput

InputInit ==
    /\ ItersIdle
    /\ EarlierIdle
    /\ MergeIdle
    /\ input = init_input_impl_seq
    /\ inputHist = NoCall

InputNext ==
    \/ append_data
    \/ append_tree
    \/ append_stream
    \/ prepend_data
    \/ prepend_tree
    \/ prepend_stream
    \/ get_parse_block
    \/ consume_data
    \/ undo_consume_data
    \/ consume_tree
    \/ undo_consume_tree

InputSpec == InputInit /\ [][InputNext]_vars

(***************************************************************************)
(* The position of the input: line, column and byte.                       *)
(***************************************************************************)
\* the pieces of text that are consumed: the characters are a newline and one
\* that is none
PosData == UNION {[1..n -> {"\n", "x"}] : n \in 0..(MaxData + 1)}

\* update_position_seq: the loop from data[i] on
RECURSIVE update_position_from(_, _, _, _)
update_position_from(is, data, i, length) ==
    IF i > length
    THEN is
    ELSE update_position_from(
             IF data[i] # "\n"
             THEN [is EXCEPT !.column = @ + 1]
             ELSE [is EXCEPT !.line = @ + 1, !.column = 1],
             data, i + 1, length)

\* update_position_seq( is, data, length )
update_position_seq(is, data, length) ==
    [update_position_from(is, data, 1, length) EXCEPT !.byte = @ + length]

\* undo_position_seq( is, data, length ): a line less for each newline, and
\* the bytes; the column is left as it is
undo_position_seq(is, data, length) ==
    [is EXCEPT !.line = @ - Cardinality({i \in 1..length : data[i] = "\n"}),
               !.byte = @ - length]

update_position ==
    /\ CanCall
    /\ \E data \in PosData :
          /\ input' = update_position_seq(input, data, Len(data))
          /\ inputHist' = Called("update_position_seq", data, 0, "none")
    /\ UNCHANGED exceptInput

\* the undo of the update that has just been made, on the same data
undo_position ==
    /\ CanCall
    /\ inputHist.call = "update_position_seq"
    /\ input' = undo_position_seq(input, inputHist.arg, Len(inputHist.arg))
    /\ inputHist' = Called("undo_position_seq", inputHist.arg, 0, "none")
    /\ UNCHANGED exceptInput

PosNext ==
    \/ update_position
    \/ undo_position

PosSpec == InputInit /\ [][PosNext]_vars

(***************************************************************************)
(* The claims about the input.                                             *)
(***************************************************************************)
Reverse(seq) == [i \in 1..Len(seq) |-> seq[Len(seq) + 1 - i]]

\* the buffers of an input in their order: those of the stash from the
\* bottom up, then those of the queue, each by its address
BufferSequence(is) ==
    LET bufs == Reverse(is.stash) \o is.queue
    IN  [i \in 1..Len(bufs) |-> bufs[i].ptr]

\* the step is a call of one of the functions named
StepOf(calls) ==
    /\ inputHist'.ops = inputHist.ops + 1
    /\ inputHist'.call \in calls

\* the stream buffers at the head of a queue
RECURSIVE LeadingStreams(_)
LeadingStreams(queue) ==
    IF queue # <<>> /\ is_stream(Head(queue))
    THEN <<Head(queue)>> \o LeadingStreams(Tail(queue))
    ELSE <<>>

\* C25: the buffer sequence reverse(stash) ++ queue is left unchanged by each
\* call of input_consume_data, input_undo_consume_data, input_consume_tree
\* and input_undo_consume_tree: no buffer is reordered, dropped or duplicated
C25_BufferSequenceKept ==
    [][StepOf({"consume_data", "undo_consume_data",
               "consume_tree", "undo_consume_tree"})
          => BufferSequence(input') = BufferSequence(input)]_vars

\* an undo of consumed data has ended with buffers on both sides
C25_Witness ==
    /\ inputHist.call = "undo_consume_data"
    /\ inputHist.fault = "none"
    /\ input.stash # <<>>
    /\ input.queue # <<>>

\* C26: when input_consume_data has returned n > 0, the input_undo_consume_data
\* of n bytes that follows it ends with all n bytes pushed back, and reads
\* neither the head of an empty queue nor the top of an empty stash
C26_UndoConsumeDataSafe ==
    inputHist.call = "undo_consume_data"
        => /\ inputHist.fault = "none"
           /\ inputHist.returned = inputHist.arg

\* C27 as stated: after input_consume_tree and the input_undo_consume_tree of
\* its tree, the queue and the stash are each what they were before the
\* consume, and the assertion on the ids holds
C27_UndoRestoresQueueAndStash ==
    [][StepOf({"undo_consume_tree"})
          => /\ inputHist'.fault = "none"
             /\ input'.queue = inputHist.before.queue
             /\ input'.stash = inputHist.before.stash]_vars

\* C27: after input_consume_tree and the input_undo_consume_tree of its tree,
\* the assertion on the ids holds, the buffer of the tree is at the head of
\* the queue again with what followed it, and the stream buffers that led the
\* queue before the consume are on top of the stash that was: queue and
\* stash are each as before when no stream buffer led the queue
C27_UndoRestoresFromTree ==
    [][StepOf({"undo_consume_tree"})
          => LET before == inputHist.before
                 leading == LeadingStreams(before.queue)
             IN  /\ inputHist'.fault = "none"
                 /\ input'.queue = SubSeq(before.queue, Len(leading) + 1,
                                          Len(before.queue))
                 /\ Head(input'.queue).tree = inputHist.returned
                 /\ input'.stash = Reverse(leading) \o before.stash
                 /\ BufferSequence(input') = BufferSequence(before)]_vars

\* the consume of a tree behind a stream has been undone: the stream is on
\* the stash
C27_Witness ==
    /\ inputHist.call = "undo_consume_tree"
    /\ inputHist.fault = "none"
    /\ input.stash # <<>>
    /\ is_stream(Head(input.stash))

\* C28: update_position_seq( is, data, n ) followed by
\* undo_position_seq( is, data, n ) restores the line, the column and the
\* byte of the input, also when there are newlines in data
C28_UndoRestoresPosition ==
    [][StepOf({"undo_position_seq"})
          => /\ input'.line = inputHist.before.line
             /\ input'.column = inputHist.before.column
             /\ input'.byte = inputHist.before.byte]_vars

\* the first token or ignore buffer of a queue: its place, 0 if there is none
FirstTree(queue) ==
    IF \E i \in 1..Len(queue) : is_tree(queue[i])
    THEN CHOOSE i \in 1..Len(queue) :
             is_tree(queue[i]) /\ \A j \in 1..(i - 1) : ~is_tree(queue[j])
    ELSE 0

\* C29: when input_get_parse_block has returned INPUT_TREE or INPUT_IGNORE,
\* the input_consume_tree that follows it passes its assertion and returns the
\* tree of the first token or ignore buffer of the queue, the buffer that
\* input_get_parse_block stopped at
C29_ConsumeTreeAfterParseBlock ==
    (/\ inputHist.call = "consume_tree"
     /\ inputHist.prev.call = "get_parse_block"
     /\ inputHist.prev.returned \in {"INPUT_TREE", "INPUT_IGNORE"})
        => LET queue == inputHist.before.queue
           IN  /\ inputHist.fault = "none"
               /\ FirstTree(queue) # 0
               /\ FirstTree(queue) = inputHist.prev.arg
               /\ inputHist.returned = queue[FirstTree(queue)].tree

\* a tree was reported behind a stream without data, and consumed
C29_Witness ==
    /\ inputHist.call = "consume_tree"
    /\ inputHist.prev.call = "get_parse_block"
    /\ inputHist.prev.returned \in {"INPUT_TREE", "INPUT_IGNORE"}
    /\ inputHist.prev.arg > 1
    /\ inputHist.fault = "none"

\* the sum of the numbers of a sequence
RECURSIVE SumOfSeq(_)
SumOfSeq(seq) ==
    IF seq = <<>> THEN 0 ELSE Head(seq) + SumOfSeq(Tail(seq))

\* C30: input_consume_data moves no token or ignore buffer to the stash and
\* consumes no byte of a stream buffer behind a token or ignore buffer; what
\* it returns is the sum of what the leading stream buffers consumed, and at
\* most the length asked for
C30_ConsumeDataStopsAtTree ==
    [][StepOf({"consume_data"})
          => LET leading == LeadingStreams(input.queue)
                 moved == Len(input'.stash) - Len(input.stash)
                 after == Reverse(input'.stash) \o input'.queue
                 from == Len(input.stash)
                 taken(i) == after[from + i].consumed - leading[i].consumed
             IN  /\ moved \in 0..Len(leading)
                 /\ input'.queue = SubSeq(input.queue, moved + 1,
                                          Len(input.queue))
                        \/ /\ moved < Len(leading)
                           /\ Tail(input'.queue) =
                                  SubSeq(input.queue, moved + 2,
                                         Len(input.queue))
                 /\ \A i \in 1..Len(input'.stash) :
                       is_tree(input'.stash[i])
                           => i > moved
                 /\ \A i \in (Len(leading) + 1)..Len(input.queue) :
                       after[from + i] = input.queue[i]
                 /\ inputHist'.returned =
                        SumOfSeq([i \in 1..Len(leading) |-> taken(i)])
                 /\ \A i \in 1..Len(leading) : taken(i) >= 0
                 /\ inputHist'.returned <= inputHist'.arg]_vars

\* data was consumed up to a token that has a stream with data behind it, and
\* less than was asked for
C30_Witness ==
    /\ inputHist.call = "consume_data"
    /\ inputHist.returned > 0
    /\ inputHist.returned < inputHist.arg
    /\ Len(input.queue) > 1
    /\ is_tree(input.queue[1])
    /\ is_stream(input.queue[2])
    /\ input.queue[2].avail > 0

(***************************************************************************)
(* The key arithmetic of RangePairIter.                                    *)
(***************************************************************************)
\* the least and the greatest value of the key type
MinKeyVal == CHOOSE v \in {KeyVal(k) : k \in Keys} : \A k \in Keys : v <= KeyVal(k)

MaxKeyVal == CHOOSE v \in {KeyVal(k) : k \in Keys} : \A k \in Keys : v >= KeyVal(k)

\* the key that a return which breaks a range has decremented or incremented,
\* the key it was found greater or less than, and the key that came of it
Stepped(r) ==
    LET s1 == r.heads[1]
        s2 == r.heads[2]
    IN  CASE r.it.itState = "S1SticksOutBreak" ->
                 [by |-> -1, key |-> s2.lowKey, other |-> s1.lowKey,
                  result |-> r.it.s1Tel.highKey]
          [] r.it.itState = "S2SticksOutBreak" ->
                 [by |-> -1, key |-> s1.lowKey, other |-> s2.lowKey,
                  result |-> r.it.s2Tel.highKey]
          [] r.it.itState = "S2DragsBehindBreak" ->
                 [by |-> 1, key |-> s1.highKey, other |-> s2.highKey,
                  result |-> r.it.bottomLow]
          [] r.it.itState = "S1DragsBehindBreak" ->
                 [by |-> 1, key |-> s2.highKey, other |-> s1.highKey,
                  result |-> r.it.bottomLow]

BreakReturns ==
    {i \in 1 .. Len(returns) :
        returns[i].it.itState \in {"S1SticksOutBreak", "S2SticksOutBreak",
                                   "S2DragsBehindBreak", "S1DragsBehindBreak"}}

\* C35: RangePairIter decrements only a lowKey that is greater than another
\* lowKey and increments only a highKey that is less than another highKey:
\* never the least key or the greatest key of the key type, so that the bound
\* it computes is the key one below or one above and does not wrap around
C35_NoWrapAround ==
    \A i \in BreakReturns :
        LET step == Stepped(returns[i])
        IN  /\ step.by = -1 =>
                  /\ KeyVal(step.key) > KeyVal(step.other)
                  /\ KeyVal(step.key) # MinKeyVal
            /\ step.by = 1 =>
                  /\ KeyVal(step.key) < KeyVal(step.other)
                  /\ KeyVal(step.key) # MaxKeyVal
            /\ KeyVal(step.result) = KeyVal(step.key) + step.by

\* a walk over signed keys broke a range that starts at the least key, by a
\* decrement, and a range that ends at the greatest key, by an increment
C35_Witness ==
    /\ isSigned
    /\ \E i \in BreakReturns :
          /\ Stepped(returns[i]).by = -1
          /\ KeyVal(Stepped(returns[i]).other) = MinKeyVal
    /\ \E i \in BreakReturns :
          /\ Stepped(returns[i]).by = 1
          /\ KeyVal(Stepped(returns[i]).other) = MaxKeyVal

(***************************************************************************)
(* The two iterators on lists of single keys.                              *)
(***************************************************************************)
\* both iterators were constructed, over lists that correspond
BothWalk == rit.itState # "None" /\ vit.itState # "None"

\* an element of a list of ranges and one of a list of keys are the same
\* element with the same key, or neither is there
SameElement(rangeTel, keyTel) ==
    /\ rangeTel.trans = keyTel.trans
    /\ rangeTel.trans # 0 =>
          /\ rangeTel.lowKey = rangeTel.highKey
          /\ KeyVal(rangeTel.lowKey) = keyTel.key

\* C36: on two lists in which every range is a single key RangePairIter
\* reports no BreakS1 or BreakS2, and return by return the same RangeInS1,
\* RangeInS2 and RangeOverlap with the same current elements as ValPairIter on
\* the lists of those keys
C36_SingleKeysAsValPairIter ==
    BothWalk =>
        /\ \A i \in 1 .. Len(Events) : ~IsBreak(Events[i])
        /\ \A i \in 1 .. Len(returns) :
              i <= Len(vreturns) =>
                  LET r == returns[i].it
                      v == vreturns[i].it
                  IN  /\ r.itState = v.itState
                      /\ r.itState # "End" =>
                            /\ r.userState = v.userState
                            /\ SameElement(r.s1Tel, v.s1Tel)
                            /\ SameElement(r.s2Tel, v.s2Tel)

\* both iterators have finished, after an overlap and a key of one list only
C36_Witness ==
    /\ BothWalk
    /\ rit.itState = "End"
    /\ vit.itState = "End"
    /\ Len(returns) = Len(vreturns)
    /\ \E i \in 1 .. Len(returns) : returns[i].it.userState = "RangeOverlap"
    /\ \E i \in 1 .. Len(returns) :
          /\ returns[i].it.itState = "OnlyInS2Range"
          /\ vreturns[i].it.userState = "RangeInS2"

(***************************************************************************)
(* The lists under the iterators.                                          *)
(***************************************************************************)
\* C37: RangePairIter and ValPairIter write to no element of the lists they
\* walk: every step leaves the lowKey, the highKey and the order of the
\* elements of the lists as they were; a range that is broken is trimmed in
\* s1Tel or s2Tel and its rest is kept in bottomLow, bottomHigh and
\* bottomTrans1 or bottomTrans2
C37_ListsNotWritten ==
    [][/\ list1' = list1
       /\ list2' = list2
       /\ vlist1' = vlist1
       /\ vlist2' = vlist2]_vars

\* a range of list 1 was broken: s1Tel holds a highKey that is not the one of
\* the element, and the rest of the range is in the bottom slots
C37_Witness ==
    /\ rit.itState = "S1SticksOut"
    /\ rit.s1Tel.trans # 0
    /\ rit.s1Tel.highKey # list1[rit.s1Tel.trans].highKey
    /\ rit.bottomHigh = list1[rit.s1Tel.trans].highKey
    /\ rit.bottomTrans1 = rit.s1Tel.trans

(***************************************************************************)
(* A transition that is added into itself.                                 *)
(***************************************************************************)
\* C38: addInTrans( t, t ) leaves the action table, the longest-match action
\* table and the priority table of t as they were: the actions of the copy
\* are all on orderings that t holds, and the priorities are not merged
C38_SelfAddInTrans ==
    \A c \in 1 .. Len(addedIn) :
        addedIn[c].srcTrans = addedIn[c].destTrans =>
            trans = addedIn[c].before

\* a transition that holds an action and a priority was added into itself
C38_Witness ==
    \E c \in 1 .. Len(addedIn) :
        /\ addedIn[c].srcTrans = addedIn[c].destTrans
        /\ trans[addedIn[c].destTrans].actionTable # <<>>
        /\ trans[addedIn[c].destTrans].priorTable # <<>>

(***************************************************************************)
(* CmpPriorEl, the compare of priority elements that tells the data of     *)
(* states apart. A PriorEl refers to its PriorDesc by a pointer: the       *)
(* descriptors are objects at addresses, with their values in descs.       *)
(***************************************************************************)
\* the addresses of the PriorDesc objects
DescAddrs == {1, 2}

\* mutant: the descriptors are left out of the compare
CmpPriorEl_orderingOnly(pel1, pel2) ==
    IF pel1.ordering < pel2.ordering THEN -1
    ELSE IF pel1.ordering > pel2.ordering THEN 1
    ELSE 0

\* CmpPriorEl::compare( pel1, pel2 ): desc is compared as a pointer
CmpPriorEl_compare(pel1, pel2) ==
    IF pel1.desc < pel2.desc THEN -1
    ELSE IF pel1.desc > pel2.desc THEN 1
    ELSE IF pel1.ordering < pel2.ordering THEN -1
    ELSE IF pel1.ordering > pel2.ordering THEN 1
    ELSE 0

\* two elements are compared, both ways and each with itself
callCmpPriorEl ==
    /\ priorCmp.outcome = "none"
    /\ \E ordering1, ordering2 \in Orderings, desc1, desc2 \in DescAddrs :
          LET pel1 == PriorEl(ordering1, desc1)
              pel2 == PriorEl(ordering2, desc2)
          IN  priorCmp' = [priorCmp EXCEPT
                             !.outcome = "compared",
                             !.pel1 = pel1,
                             !.pel2 = pel2,
                             !.forward = CmpPriorEl_compare(pel1, pel2),
                             !.backward = CmpPriorEl_compare(pel2, pel1),
                             !.self1 = CmpPriorEl_compare(pel1, pel1),
                             !.self2 = CmpPriorEl_compare(pel2, pel2)]
    /\ UNCHANGED <<condData, exceptMerge>>

\* the descriptors hold any keys and priorities
CmpPriorElInit ==
    /\ ItersIdle
    /\ EarlierIdle
    /\ InputIdle
    /\ condData = [condSpaceMap |-> <<>>]
    /\ \E descs \in [DescAddrs -> PriorDesc] :
          priorCmp = [outcome |-> "none", descs |-> descs,
                      pel1 |-> PriorEl(1, 1), pel2 |-> PriorEl(1, 1),
                      forward |-> 0, backward |-> 0, self1 |-> 0, self2 |-> 0]

CmpPriorElNext == callCmpPriorEl

CmpPriorElSpec == CmpPriorElInit /\ [][CmpPriorElNext]_vars

\* C39: CmpPriorEl compares by the identity of the descriptor and by the
\* ordering: two elements compare equal exactly when they refer to the same
\* PriorDesc object and have the same ordering, so elements of two descriptors
\* with the same key and priority compare unequal; the compare is
\* antisymmetric and gives 0 for an element and itself
C39_CmpPriorElByIdentity ==
    priorCmp.outcome = "compared" =>
        LET pel1 == priorCmp.pel1
            pel2 == priorCmp.pel2
        IN  /\ priorCmp.forward = 0
                  <=> (pel1.desc = pel2.desc /\ pel1.ordering = pel2.ordering)
            /\ (/\ pel1.desc # pel2.desc
                /\ priorCmp.descs[pel1.desc] = priorCmp.descs[pel2.desc])
                  => priorCmp.forward # 0
            /\ priorCmp.backward = 0 - priorCmp.forward
            /\ priorCmp.self1 = 0
            /\ priorCmp.self2 = 0

\* elements of one ordering on two descriptors of the same key and priority
\* were compared
C39_Witness ==
    /\ priorCmp.outcome = "compared"
    /\ priorCmp.pel1.desc # priorCmp.pel2.desc
    /\ priorCmp.descs[priorCmp.pel1.desc] = priorCmp.descs[priorCmp.pel2.desc]
    /\ priorCmp.pel1.ordering = priorCmp.pel2.ordering
    /\ priorCmp.forward # 0

(***************************************************************************)
(* The queue of an input_impl_seq as the list it is in memory: queue and   *)
(* queue_tail point to seq_buf objects, and each seq_buf has next and      *)
(* prev. The address 0 is the null pointer. A buffer that was popped keeps *)
(* what its next and prev held, and can be linked in again, as the buffers *)
(* that come back from the stash are.                                      *)
(***************************************************************************)
\* the addresses of the seq_buf objects
BufAddrs == 1..MaxInputOps

\* an input_impl_seq after init_input_impl_seq, and every seq_buf as
\* new_seq_buf leaves it: allocs counts the buffers made, popped holds the
\* buffers taken from the queue
init_seq_links ==
    [queue |-> 0, queue_tail |-> 0,
     next |-> [b \in BufAddrs |-> 0], prev |-> [b \in BufAddrs |-> 0],
     allocs |-> 0, popped |-> {}]

\* input_stream_seq_pop_head, as a mutant has it: queue_tail is left alone
seq_pop_head_keepTail(is) ==
    LET ret == is.queue
        queue == is.next[is.queue]
    IN  [is |-> IF queue = 0
                THEN [is EXCEPT !.queue = queue]
                ELSE [is EXCEPT !.queue = queue, !.prev[queue] = 0],
         returned |-> ret]

\* input_stream_seq_pop_head( is ), on the pointers
seq_pop_head(is) ==
    LET ret == is.queue
        queue == is.next[is.queue]
    IN  [is |-> IF queue = 0
                THEN [is EXCEPT !.queue = queue, !.queue_tail = 0]
                ELSE [is EXCEPT !.queue = queue, !.prev[queue] = 0],
         returned |-> ret]

\* input_stream_seq_append( is, seq_buf ), on the pointers
seq_append(is, seq_buf) ==
    IF is.queue = 0
    THEN [is EXCEPT !.prev[seq_buf] = 0, !.next[seq_buf] = 0,
                    !.queue = seq_buf, !.queue_tail = seq_buf]
    ELSE [is EXCEPT !.next = [@ EXCEPT ![is.queue_tail] = seq_buf,
                                       ![seq_buf] = 0],
                    !.prev[seq_buf] = is.queue_tail,
                    !.queue_tail = seq_buf]

\* input_stream_seq_pop_tail( is ), on the pointers
seq_pop_tail(is) ==
    LET ret == is.queue_tail
        queue_tail == is.prev[is.queue_tail]
    IN  [is |-> IF queue_tail = 0
                THEN [is EXCEPT !.queue_tail = queue_tail, !.queue = 0]
                ELSE [is EXCEPT !.queue_tail = queue_tail,
                                !.next[queue_tail] = 0],
         returned |-> ret]

\* input_stream_seq_prepend( is, seq_buf ), on the pointers
seq_prepend(is, seq_buf) ==
    IF is.queue = 0
    THEN [is EXCEPT !.prev[seq_buf] = 0, !.next[seq_buf] = 0,
                    !.queue = seq_buf, !.queue_tail = seq_buf]
    ELSE [is EXCEPT !.prev = [@ EXCEPT ![is.queue] = seq_buf,
                                       ![seq_buf] = 0],
                    !.next[seq_buf] = is.queue,
                    !.queue = seq_buf]

\* the buffers a caller can hand to append and prepend: a new one, or one
\* that was popped
CanLink(is) ==
    is.popped \union (IF is.allocs < MaxInputOps THEN {is.allocs + 1} ELSE {})

\* the input after seq_buf was handed over
Linked(is, seq_buf) ==
    [is EXCEPT !.popped = @ \ {seq_buf},
               !.allocs = IF seq_buf > @ THEN seq_buf ELSE @]

CanCallSeq == inputHist.ops < 2 * MaxInputOps

CalledSeq(call, seq_buf) ==
    [call |-> call, seq_buf |-> seq_buf, ops |-> inputHist.ops + 1]

call_seq_append ==
    /\ CanCallSeq
    /\ \E seq_buf \in CanLink(input) :
          /\ input' = seq_append(Linked(input, seq_buf), seq_buf)
          /\ inputHist' = CalledSeq("seq_append", seq_buf)
    /\ UNCHANGED exceptInput

call_seq_prepend ==
    /\ CanCallSeq
    /\ \E seq_buf \in CanLink(input) :
          /\ input' = seq_prepend(Linked(input, seq_buf), seq_buf)
          /\ inputHist' = CalledSeq("seq_prepend", seq_buf)
    /\ UNCHANGED exceptInput

\* the callers pop a queue that is not empty
call_seq_pop_head ==
    /\ CanCallSeq
    /\ input.queue # 0
    /\ LET done == seq_pop_head(input)
       IN  /\ input' = [done.is EXCEPT !.popped = @ \union {done.returned}]
           /\ inputHist' = CalledSeq("seq_pop_head", done.returned)
    /\ UNCHANGED exceptInput

call_seq_pop_tail ==
    /\ CanCallSeq
    /\ input.queue_tail # 0
    /\ LET done == seq_pop_tail(input)
       IN  /\ input' = [done.is EXCEPT !.popped = @ \union {done.returned}]
           /\ inputHist' = CalledSeq("seq_pop_tail", done.returned)
    /\ UNCHANGED exceptInput

SeqLinksInit ==
    /\ ItersIdle
    /\ EarlierIdle
    /\ MergeIdle
    /\ input = init_seq_links
    /\ inputHist = [call |-> "none", seq_buf |-> 0, ops |-> 0]

SeqLinksNext ==
    \/ call_seq_append
    \/ call_seq_prepend
    \/ call_seq_pop_head
    \/ call_seq_pop_tail

SeqLinksSpec == SeqLinksInit /\ [][SeqLinksNext]_vars

\* the buffers met from buf on by following next, at most fuel of them
RECURSIVE FollowNext(_, _, _)
FollowNext(is, buf, fuel) ==
    IF buf = 0 \/ fuel = 0
    THEN <<>>
    ELSE <<buf>> \o FollowNext(is, is.next[buf], fuel - 1)

\* C31: after any sequence of input_stream_seq_append, _prepend, _pop_head
\* and _pop_tail the queue is a well-formed doubly linked list: queue is null
\* exactly when queue_tail is, the prev of the head and the next of the tail
\* are null, and following next from queue ends at queue_tail with every
\* prev the inverse of next
C31_QueueWellFormed ==
    LET walk == FollowNext(input, input.queue, MaxInputOps + 1)
    IN  /\ input.queue = 0 <=> input.queue_tail = 0
        /\ input.queue # 0 =>
              /\ input.prev[input.queue] = 0
              /\ input.next[input.queue_tail] = 0
              /\ Len(walk) <= MaxInputOps
              /\ walk[Len(walk)] = input.queue_tail
              /\ \A i \in 1..(Len(walk) - 1) :
                    input.prev[walk[i + 1]] = walk[i]
              /\ \A i, j \in 1..Len(walk) : walk[i] = walk[j] => i = j

\* after six calls or more the tail was popped from a queue of four buffers
\* or more, which leaves three buffers or more linked
C31_Witness ==
    /\ inputHist.call = "seq_pop_tail"
    /\ inputHist.ops >= 6
    /\ input.popped # {}
    /\ input.queue # 0
    /\ input.queue # input.queue_tail
    /\ input.next[input.queue] # input.queue_tail
    /\ input.queue < input.next[input.queue]

(***************************************************************************)
(* The undo of the calls that add a buffer to the queue (input.c, built    *)
(* without OPTIM_APPEND). free( seq_buf ) has no effect on the input.      *)
(***************************************************************************)
\* input_stream_seq_pop_tail, as a mutant has it: the head is taken
input_stream_seq_pop_tail_head(is) ==
    [is |-> [is EXCEPT !.queue = Tail(@)], returned |-> Head(is.queue)]

\* input_stream_seq_pop_tail( is ), on a queue that is not empty
input_stream_seq_pop_tail(is) ==
    [is |-> [is EXCEPT !.queue = SubSeq(@, 1, Len(@) - 1)],
     returned |-> is.queue[Len(is.queue)]]

\* input_undo_prepend_data( prg, si, length )
input_undo_prepend_data(is) ==
    LET popped == input_stream_seq_pop_head(is)
    IN  [is |-> popped.is, fault |-> "none", returned |-> NoTree]

\* input_undo_prepend_tree( prg, si ): a fault is the assertion failing
input_undo_prepend_tree(is) ==
    IF is.queue # <<>> /\ (\/ Head(is.queue).type = "SB_TOKEN"
                           \/ Head(is.queue).type = "SB_IGNORE")
    THEN LET popped == input_stream_seq_pop_head(is)
         IN  [is |-> popped.is, fault |-> "none",
              returned |-> popped.returned.tree]
    ELSE [is |-> is, fault |-> "assert", returned |-> NoTree]

\* input_undo_prepend_stream( prg, is )
input_undo_prepend_stream(is) ==
    LET popped == input_stream_seq_pop_head(is)
    IN  [is |-> popped.is, fault |-> "none", returned |-> NoTree]

\* input_undo_append_data( prg, si, length )
input_undo_append_data(is) ==
    LET popped == input_stream_seq_pop_tail(is)
    IN  [is |-> popped.is, fault |-> "none", returned |-> NoTree]

\* input_undo_append_tree( prg, si )
input_undo_append_tree(is) ==
    LET popped == input_stream_seq_pop_tail(is)
    IN  [is |-> popped.is, fault |-> "none",
         returned |-> popped.returned.tree]

\* input_undo_append_stream( prg, si )
input_undo_append_stream(is) ==
    LET popped == input_stream_seq_pop_tail(is)
    IN  [is |-> popped.is, fault |-> "none", returned |-> NoTree]

\* each undo is called on the input that the call it undoes has just
\* returned from
undo_prepend_data ==
    /\ CanCall
    /\ inputHist.call = "prepend_data"
    /\ LET done == input_undo_prepend_data(input)
       IN  /\ input' = done.is
           /\ inputHist' = Called("undo_prepend_data", inputHist.arg,
                                  done.returned, done.fault)
    /\ UNCHANGED exceptInput

undo_prepend_tree ==
    /\ CanCall
    /\ inputHist.call = "prepend_tree"
    /\ LET done == input_undo_prepend_tree(input)
       IN  /\ input' = done.is
           /\ inputHist' = Called("undo_prepend_tree", inputHist.arg,
                                  done.returned, done.fault)
    /\ UNCHANGED exceptInput

undo_prepend_stream ==
    /\ CanCall
    /\ inputHist.call = "prepend_stream"
    /\ LET done == input_undo_prepend_stream(input)
       IN  /\ input' = done.is
           /\ inputHist' = Called("undo_prepend_stream", inputHist.arg,
                                  done.returned, done.fault)
    /\ UNCHANGED exceptInput

undo_append_data ==
    /\ CanCall
    /\ inputHist.call = "append_data"
    /\ LET done == input_undo_append_data(input)
       IN  /\ input' = done.is
           /\ inputHist' = Called("undo_append_data", inputHist.arg,
                                  done.returned, done.fault)
    /\ UNCHANGED exceptInput

undo_append_tree ==
    /\ CanCall
    /\ inputHist.call = "append_tree"
    /\ LET done == input_undo_append_tree(input)
       IN  /\ input' = done.is
           /\ inputHist' = Called("undo_append_tree", inputHist.arg,
                                  done.returned, done.fault)
    /\ UNCHANGED exceptInput

undo_append_stream ==
    /\ CanCall
    /\ inputHist.call = "append_stream"
    /\ LET done == input_undo_append_stream(input)
       IN  /\ input' = done.is
           /\ inputHist' = Called("undo_append_stream", inputHist.arg,
                                  done.returned, done.fault)
    /\ UNCHANGED exceptInput

EditNext ==
    \/ append_data
    \/ append_tree
    \/ append_stream
    \/ prepend_data
    \/ prepend_tree
    \/ prepend_stream
    \/ consume_data
    \/ undo_prepend_data
    \/ undo_prepend_tree
    \/ undo_prepend_stream
    \/ undo_append_data
    \/ undo_append_tree
    \/ undo_append_stream

EditSpec == InputInit /\ [][EditNext]_vars

\* the buffers of the queue in order: which buffer, of what type, with what
\* tree and how many bytes to read
QueueBuffers(is) ==
    [i \in 1..Len(is.queue) |->
        [ptr |-> is.queue[i].ptr, type |-> is.queue[i].type,
         tree |-> is.queue[i].tree, avail |-> is.queue[i].avail]]

UndoCalls == {"undo_" \o call : call \in EditCalls}

\* C32: an input_prepend_data, _tree or _stream followed at once by its
\* input_undo_prepend_ restores the queue to the buffers it held before, in
\* their order, and so does an input_append_ followed by its
\* input_undo_append_ at the tail; input_undo_prepend_tree and
\* input_undo_append_tree return the tree that was added
C32_UndoRestoresQueue ==
    [][StepOf(UndoCalls) =>
          /\ inputHist'.fault = "none"
          /\ QueueBuffers(input') = QueueBuffers(inputHist.before)
          /\ inputHist'.call \in {"undo_prepend_tree", "undo_append_tree"}
                => inputHist'.returned
                      = [ptr |-> input.allocs, id |-> inputHist.arg]]_vars

\* a prepend of a tree that split the stream at the head of the queue was
\* undone
C32_Witness ==
    /\ inputHist.call = "undo_prepend_tree"
    /\ inputHist.returned.id = 2
    /\ Len(input.queue) = 1
    /\ input.stash # <<>>
    /\ input.stash[1].consumed > 0

(***************************************************************************)
(* The reads of the input: input_get_parse_block and input_get_data, on    *)
(* queues whose streams can be at the end of their data or of their file,  *)
(* and with the eof mark of the input set or not.                          *)
(***************************************************************************)
\* input_set_eof_mark( prg, si, eof_mark )
input_set_eof_mark(is, eof_mark) == [is EXCEPT !.eof_mark = eof_mark]

\* si->funcs->get_data( prg, si, dest, length ) of a stream: the bytes
\* copied, the length asked for or what the stream holds; nothing is consumed
data_get_data(sub, length) ==
    IF sub.avail <= length THEN sub.avail ELSE length

\* input_get_data: the loop, at buf with length bytes still asked for and
\* copied bytes copied
RECURSIVE get_data_from(_, _, _, _)
get_data_from(is, buf, length, copied) ==
    IF buf > Len(is.queue)
    THEN [is |-> is, returned |-> copied]
    ELSE IF is_stream(is.queue[buf])
         THEN LET glen == data_get_data(is.queue[buf], length)
              IN  IF glen = 0
                  THEN get_data_from(is, buf + 1, length, copied)
                  ELSE IF length - glen = 0
                       THEN [is |-> is, returned |-> copied + glen]
                       ELSE get_data_from(is, buf + 1, length - glen,
                                          copied + glen)
         ELSE IF is.queue[buf].type = "SB_TOKEN"
              THEN [is |-> is, returned |-> copied]
              ELSE IF is.queue[buf].type = "SB_IGNORE"
                   THEN [is |-> is, returned |-> copied]
                   ELSE IF length = 0
                        THEN [is |-> is, returned |-> copied]
                        ELSE get_data_from(is, buf + 1, length, copied)

\* input_get_data, as a mutant has it: the streams read are stashed
input_get_data_stash(is, length) ==
    [get_data_from(is, 1, length, 0) EXCEPT !.is = StashLeadingStreams(is)]

\* input_get_data( prg, is, dest, length )
input_get_data(is, length) == get_data_from(is, 1, length, 0)

set_eof_mark ==
    /\ CanCall
    /\ \E eof_mark \in BOOLEAN :
          /\ input' = input_set_eof_mark(input, eof_mark)
          /\ inputHist' = Called("set_eof_mark", IF eof_mark THEN 1 ELSE 0,
                                 0, "none")
    /\ UNCHANGED exceptInput

\* a stream of the queue that holds no more data comes to the end of its file
stream_eof ==
    /\ CanCall
    /\ \E buf \in 1..Len(input.queue) :
          /\ is_stream(input.queue[buf])
          /\ input.queue[buf].avail = 0
          /\ ~input.queue[buf].eof
          /\ input' = [input EXCEPT !.queue[buf].eof = TRUE]
          /\ inputHist' = Called("stream_eof", buf, 0, "none")
    /\ UNCHANGED exceptInput

get_data ==
    /\ CanCall
    /\ \E length \in ConsumeLengths :
          LET done == input_get_data(input, length)
          IN  /\ input' = done.is
              /\ inputHist' = Called("get_data", length, done.returned,
                                     "none")
    /\ UNCHANGED exceptInput

ReadNext ==
    \/ append_data
    \/ append_tree
    \/ append_stream
    \/ prepend_tree
    \/ consume_data
    \/ set_eof_mark
    \/ stream_eof
    \/ get_parse_block
    \/ get_data

ReadSpec == InputInit /\ [][ReadNext]_vars

\* a buffer that has something to parse: a tree, or a stream with data
Yields(b) == is_tree(b) \/ (is_stream(b) /\ b.avail > 0)

\* the place in the queue of the first buffer that yields, 0 when none does
FirstYield(queue) ==
    IF \E i \in 1..Len(queue) : Yields(queue[i])
    THEN CHOOSE i \in 1..Len(queue) :
             Yields(queue[i]) /\ \A j \in 1..(i - 1) : ~Yields(queue[j])
    ELSE 0

\* what input_get_parse_block is to return for a buffer that yields
BlockOf(b) ==
    IF b.type = "SB_TOKEN" THEN "INPUT_TREE"
    ELSE IF b.type = "SB_IGNORE" THEN "INPUT_IGNORE"
    ELSE "INPUT_DATA"

\* C33: input_get_parse_block returns INPUT_EOF only when eof_mark is set,
\* which only input_set_eof_mark does, and no buffer of the queue yields data
\* or a tree; when none yields and eof_mark is not set it returns INPUT_EOD;
\* the INPUT_EOD or INPUT_EOF of a stream in the queue is skipped while a
\* buffer behind it yields: the block of the first buffer that yields is
\* returned
C33_ParseBlockEnd ==
    [][/\ input'.eof_mark # input.eof_mark
             => inputHist'.call = "set_eof_mark"
       /\ StepOf({"get_parse_block"}) =>
             LET first == FirstYield(input.queue)
                 returned == inputHist'.returned
             IN  /\ returned = "INPUT_EOF" => input.eof_mark /\ first = 0
                 /\ returned = "INPUT_EOD" => ~input.eof_mark /\ first = 0
                 /\ first = 0 =>
                       returned = IF input.eof_mark THEN "INPUT_EOF"
                                  ELSE "INPUT_EOD"
                 /\ first # 0 =>
                       /\ returned = BlockOf(input.queue[first])
                       /\ inputHist'.arg = first]_vars

\* input_get_parse_block went over a stream at the end of its file and
\* returned the tree behind it
C33_Witness ==
    /\ inputHist.call = "get_parse_block"
    /\ inputHist.returned = "INPUT_TREE"
    /\ inputHist.arg = 2
    /\ input.queue[1].eof

\* C34: input_get_data and input_get_parse_block only read the input: the
\* queue and its order, the stash, eof_mark, line, column and byte are as
\* they were; input_get_data returns at most the length asked for, and no
\* more than the streams in front of the first token or ignore buffer hold
C34_ReadsChangeNothing ==
    [][/\ StepOf({"get_data", "get_parse_block"}) => input' = input
       /\ StepOf({"get_data"}) =>
             LET leading == LeadingStreams(input.queue)
                 held == SumOfSeq([i \in 1..Len(leading) |->
                                      leading[i].avail])
                 length == inputHist'.arg
             IN  /\ inputHist'.returned <= length
                 /\ inputHist'.returned
                       = IF held <= length THEN held ELSE length]_vars

\* input_get_data was asked for more than the stream in front of a token
\* holds, with a stream that holds data behind the token
C34_Witness ==
    /\ inputHist.call = "get_data"
    /\ Len(input.queue) = 3
    /\ is_stream(input.queue[1])
    /\ is_tree(input.queue[2])
    /\ is_stream(input.queue[3])
    /\ input.queue[3].avail > 0
    /\ inputHist.returned = input.queue[1].avail
    /\ inputHist.returned > 0
    /\ inputHist.arg > inputHist.returned
====
